---- MODULE Spec2Model ----
(***************************************************************************)
(* PLC GitOps agent (Royal911/PLC_Demo).                                   *)
(*                                                                         *)
(*   scripts/grab_archive.py    one run over the tiers dev, staging, prod  *)
(*   scripts/dev_capture.py     standalone capture of the dev tier         *)
(*   scripts/deploy_staging.py  standalone deploy of the staging tier      *)
(*   scripts/deploy_prod.py     standalone deploy of the prod tier         *)
(*                                                                         *)
(* Six specifications share the variables below:                           *)
(*   Spec           one run of grab_archive.main                           *)
(*   SpecCapture    one run of grab_archive.main on a repository that      *)
(*                  already holds the artifact and other work              *)
(*   SpecRerun      grab_archive.main run up to MaxRuns times in a row     *)
(*   SpecScripts    the three standalone scripts                           *)
(*   SpecNormalize  the two normalize_plcopen_xml on bounded inputs        *)
(*   SpecProbe      grab_archive._try_download_to_controller on bounded    *)
(*                  session surfaces                                       *)
(***************************************************************************)
EXTENDS Integers, Sequences, FiniteSets, TLC

(***************************************************************************)
(* TEXT.  A file's text is a sequence of tokens.  No token is a prefix of  *)
(* another, and the tokens are numbered in the order Python compares the   *)
(* strings they stand for, so comparing token sequences lexicographically  *)
(* is comparing the strings.                                               *)
(*   NL    "\n"                                                            *)
(*   SP    " "                                                             *)
(*   CLOSE "</PlaceholderRedirections>"                                    *)
(*   EAW   "<PlaceholderRedirection   Placeholder=\"a\"/>"                 *)
(*   EA    "<PlaceholderRedirection Placeholder=\"a\" />"                  *)
(*   EAR   "<PlaceholderRedirection Placeholder=\"a\" Redirection=\"r\" />"*)
(*   EB    "<PlaceholderRedirection Placeholder=\"b\" />"                  *)
(*   SELF  "<PlaceholderRedirections/>"                                    *)
(*   OPEN  "<PlaceholderRedirections>"                                     *)
(*   TS0   "creationDateTime=\"1970-01-01T00:00:00\""                      *)
(*   TS1   "creationDateTime=\"2024-05-01T10:00:00\""                      *)
(*   TS2   "creationDateTime=\"2024-05-02T11:30:00\""                      *)
(* EAW is EA written with other whitespace; EA and EAR are two entries     *)
(* with the same Placeholder key.  A TS token stands as well for a         *)
(* modificationDateTime attribute, which the code treats alike.            *)
(***************************************************************************)
NL == 0
SP == 1
CLOSE == 2
EAW == 3
EA == 4
EAR == 5
EB == 6
SELF == 7
OPEN == 8
TS0 == 9
TS1 == 10
TS2 == 11

Tokens == NL..TS2

\* Python's str < str on two texts.
RECURSIVE StrLess(_, _)
StrLess(s, t) ==
    IF s = << >> THEN t # << >>
    ELSE IF t = << >> THEN FALSE
    ELSE IF Head(s) # Head(t) THEN Head(s) < Head(t)
    ELSE StrLess(Tail(s), Tail(t))

\* sorted(set(lines)): the distinct lines in ascending order.
RECURSIVE SortedSet(_)
SortedSet(S) ==
    IF S = {} THEN << >>
    ELSE LET least == CHOOSE x \in S : \A y \in S \ {x} : StrLess(x, y)
         IN  <<least>> \o SortedSet(S \ {least})

\* re.sub(r'creationDateTime="[^"]+"', 'creationDateTime="1970-01-01T00:00:00"', text)
sub_timestamps(text) ==
    [i \in 1..Len(text) |-> IF text[i] \in {TS1, TS2} THEN TS0 ELSE text[i]]

\* str.splitlines() on a text.
RECURSIVE splitlines(_)
splitlines(text) ==
    IF text = << >> THEN << >>
    ELSE LET nls == {i \in 1..Len(text) : text[i] = NL}
         IN  IF nls = {} THEN <<text>>
             ELSE LET k == CHOOSE i \in nls : \A j \in nls : i <= j
                  IN  <<SubSeq(text, 1, k - 1)>> \o splitlines(SubSeq(text, k + 1, Len(text)))

\* str.strip() on a line.
RECURSIVE strip(_)
strip(ln) ==
    IF ln = << >> THEN ln
    ELSE IF Head(ln) \in {SP, NL} THEN strip(Tail(ln))
    ELSE IF ln[Len(ln)] \in {SP, NL} THEN strip(SubSeq(ln, 1, Len(ln) - 1))
    ELSE ln

\* "<PlaceholderRedirection" in ln: the text is a substring of an entry, of
\* the opening tag and of the self-closing tag, and of no other token.
contains_redirection(ln) ==
    \E i \in 1..Len(ln) : ln[i] \in {EAW, EA, EAR, EB, SELF, OPEN}

\* "\n".join([indent + r for r in redirs]) with indent = two spaces.
RECURSIVE join_indented(_)
join_indented(redirs) ==
    IF redirs = << >> THEN << >>
    ELSE IF Len(redirs) = 1 THEN <<SP, SP>> \o redirs[1]
    ELSE <<SP, SP>> \o redirs[1] \o <<NL>> \o join_indented(Tail(redirs))

\* re.search(r"<PlaceholderRedirections>.*?</PlaceholderRedirections>", DOTALL):
\* the leftmost opening tag that a closing tag follows, to the first closing tag
\* after it; <<0, 0>> when there is no match.
block_match(text) ==
    LET opens == {i \in 1..Len(text) :
                    text[i] = OPEN /\ \E j \in (i + 1)..Len(text) : text[j] = CLOSE}
    IN  IF opens = {} THEN <<0, 0>>
        ELSE LET s == CHOOSE i \in opens : \A k \in opens : i <= k
                 closes == {j \in (s + 1)..Len(text) : text[j] = CLOSE}
                 e == CHOOSE j \in closes : \A k \in closes : j <= k
             IN  <<s, e>>

\* The lines of the block kept as entries, sorted and deduplicated.
block_redirs(block) ==
    LET lines == splitlines(block)
    IN  SortedSet({strip(lines[i]) : i \in {j \in 1..Len(lines) : contains_redirection(lines[j])}})

rebuild_block(redirs) ==
    IF redirs # << >>
    THEN <<OPEN, NL>> \o join_indented(redirs) \o <<NL, CLOSE>>
    ELSE <<OPEN, NL, CLOSE>>

\* The text normalize_plcopen_xml leaves in the file (it writes only if changed).
normalize_plcopen_xml(text) ==
    LET t1 == sub_timestamps(text)
        m == block_match(t1)
    IN  IF m[1] = 0 THEN t1
        ELSE SubSeq(t1, 1, m[1] - 1)
             \o rebuild_block(block_redirs(SubSeq(t1, m[1], m[2])))
             \o SubSeq(t1, m[2] + 1, Len(t1))

\* dev_capture.py, "\n".join([inner_indent + t for t in canon]) with
\* inner_indent = eight spaces.
RECURSIVE join_inner_indent(_)
join_inner_indent(canon) ==
    IF canon = << >> THEN << >>
    ELSE IF Len(canon) = 1 THEN <<SP, SP, SP, SP, SP, SP, SP, SP>> \o canon[1]
    ELSE <<SP, SP, SP, SP, SP, SP, SP, SP>> \o canon[1] \o <<NL>>
         \o join_inner_indent(Tail(canon))

\* dev_capture.py, block_re.search(text): as block_match, but the pattern
\* <PlaceholderRedirections\b[^>]*> also takes the self-closing tag for an
\* opening tag.
dev_capture_block_match(text) ==
    LET opens == {i \in 1..Len(text) :
                    text[i] \in {OPEN, SELF} /\ \E j \in (i + 1)..Len(text) : text[j] = CLOSE}
    IN  IF opens = {} THEN <<0, 0>>
        ELSE LET s == CHOOSE i \in opens : \A k \in opens : i <= k
                 closes == {j \in (s + 1)..Len(text) : text[j] = CLOSE}
                 e == CHOOSE j \in closes : \A k \in closes : j <= k
             IN  <<s, e>>

\* dev_capture.py, the two re.sub on a tag: whitespace collapsed, the closing
\* written " />".
canon_form(tag) == IF tag = EAW THEN EA ELSE tag

\* dev_capture.py, _key(tag): the value of the Placeholder attribute ("a"
\* before "b").
placeholder_key(tag) == IF tag \in {EAW, EA, EAR} THEN 1 ELSE 2

\* The order in which a set of tags is iterated.  Python leaves it open; it
\* follows the hashes of the strings and, where they collide, the order of
\* insertion.  ea_first tells whether EA comes before EAR.
RECURSIVE set_iteration(_, _)
set_iteration(S, ea_first) ==
    IF S = {} THEN << >>
    ELSE LET rank(t) == IF ea_first THEN t
                        ELSE IF t = EA THEN EAR ELSE IF t = EAR THEN EA ELSE t
             least == CHOOSE x \in S : \A y \in S : rank(x) <= rank(y)
         IN  <<least>> \o set_iteration(S \ {least}, ea_first)

\* dev_capture.py, tag_re.findall(block), then sorted(set(canon), key=_key): the
\* entries of the block wherever they stand, each once in its canonical form,
\* sorted by Placeholder key; the sort is stable, so entries with equal keys
\* stay in the order of the set's iteration.
canon_tags(block, ea_first) ==
    LET tags == {canon_form(block[i]) :
                    i \in {j \in 1..Len(block) : block[j] \in {EAW, EA, EAR, EB}}}
        order == set_iteration(tags, ea_first)
        with_key(k) == SelectSeq(order, LAMBDA t : placeholder_key(t) = k)
        sorted == with_key(1) \o with_key(2)
    IN  [i \in 1..Len(sorted) |-> <<sorted[i]>>]

\* dev_capture.py, the last re.sub: every self-closing block tag becomes the
\* explicit empty block.
RECURSIVE sub_self_closing(_)
sub_self_closing(text) ==
    IF text = << >> THEN << >>
    ELSE (IF Head(text) = SELF THEN <<OPEN, NL, CLOSE>> ELSE <<Head(text)>>)
         \o sub_self_closing(Tail(text))

\* dev_capture.normalize_plcopen_xml: the text it leaves in the file, given
\* the iteration order of the set of tags.
dev_capture_normalize_plcopen_xml(text, ea_first) ==
    LET t1 == sub_timestamps(text)
        m == dev_capture_block_match(t1)
        canon == canon_tags(SubSeq(t1, m[1], m[2]), ea_first)
        new_block == IF canon # << >>
                     THEN <<OPEN, NL>> \o join_inner_indent(canon) \o <<NL, CLOSE>>
                     ELSE <<OPEN, NL, CLOSE>>
        t2 == IF m[1] = 0 THEN t1
              ELSE SubSeq(t1, 1, m[1] - 1) \o new_block \o SubSeq(t1, m[2] + 1, Len(t1))
    IN  sub_self_closing(t2)

(***************************************************************************)
(* BOUNDS                                                                  *)
(***************************************************************************)
\* Failures injected into one behaviour (a call that raises, a git command
\* that exits non-zero, a wait that times out): of a single run, and of
\* several runs in a row.
MaxFaults == 2
MaxRerunFaults == 1
\* Runs of the script in a row.
MaxRuns == 2
\* Iterations of a connection poll loop before its timeout expires: stands
\* for TIMEOUT_S / 0.5.
MaxPolls == 2
\* Tokens between the tags of an input of SpecNormalize.
MaxBody == 3
\* Passes of the normalizer over one file.
MaxPasses == 2
MaxRaising == 2

(***************************************************************************)
(* STATE                                                                   *)
(***************************************************************************)
VARIABLES
    script,     \* the script this behaviour runs
    pc,         \* its position
    budget,     \* failures that may still be injected
    git,        \* the repository C:\PLC_REPO and its remote
    host,       \* the automation host: projects.primary, and per device
                \* dev.connected and online_app.is_logged_in
    plc,        \* the dev controller: its program, the exporter's layout
    fl,         \* the locals of the tier flow in progress
    mn,         \* the locals of main
    hist,       \* what happened earlier in the behaviour
    norm        \* SpecNormalize: the passes made over the file

vars == <<script, pc, budget, git, host, plc, fl, mn, hist, norm>>

BRANCHES == <<"dev", "staging", "prod">>
Branch == {"dev", "staging", "prod"}

(***************************************************************************)
(* COMMITS.  A commit id is the path from the root commit: a commit is an  *)
(* ancestor of another when it is a prefix of it.  NoRev is the empty      *)
(* string _git_rev returns for a ref that does not resolve.                *)
(***************************************************************************)
NoRev == << >>
C0 == <<0>>
C1 == <<0, 1>>
C11 == <<0, 1, 1>>
C2 == <<0, 2>>

IsPrefix(a, b) == Len(a) <= Len(b) /\ SubSeq(b, 1, Len(a)) = a

\* The file does not exist (in HEAD, in the index, on disk).
NoFile == <<-1>>

\* What a tier flow hands back to main: a returned (ok, msg) or an exception.
Return(ok, msg) == [kind |-> "return", ok |-> ok, msg |-> msg]
Raise(msg) == [kind |-> "raise", ok |-> FALSE, msg |-> msg]
NoResult == [kind |-> "none", ok |-> FALSE, msg |-> ""]

\* The flow locals before a flow starts.
\* What a session and the scripting host expose to the download probe: the
\* operations of online_app, whether the global OnlineChangeOption exists, and
\* the option names it has.
NoSurface == [methods |-> {}, enum |-> FALSE, options |-> {}]

FlowIdle ==
    [proj |-> "none", online_app |-> "none", connecting |-> FALSE, polls |-> 0,
     attempt |-> 0, connect_raised |-> 0, fetched |-> "no",
     gate |-> "none", local_sha |-> NoRev, remote_sha |-> NoRev,
     pulled |-> "none", used |-> "", ret |-> NoResult, calls |-> {},
     surface |-> NoSurface, raising |-> {}, invoked |-> << >>, login_opt |-> "",
     start |-> ""]

\* A failure may still be injected.
MayFail == budget > 0

(***************************************************************************)
(* THE REPOSITORY AS A RUN FINDS IT                                        *)
(***************************************************************************)
\* A deploy branch before the run: the local branch, the remote-tracking ref
\* origin/<branch> and the branch on the remote.
RefStates ==
    { [localRef |-> C1, remoteRef |-> C1,    originTip |-> C1],      \* in sync
      [localRef |-> C1, remoteRef |-> C11,   originTip |-> C11],     \* remote ahead
      [localRef |-> C1, remoteRef |-> C1,    originTip |-> C11],     \* remote ahead, not fetched yet
      [localRef |-> C1, remoteRef |-> C0,    originTip |-> C0],      \* local ahead
      [localRef |-> C1, remoteRef |-> C2,    originTip |-> C2],      \* diverged
      [localRef |-> C1, remoteRef |-> NoRev, originTip |-> NoRev] }  \* no remote branch

InSync == [localRef |-> C1, remoteRef |-> C1, originTip |-> C1]

HostFresh ==
    [primary |-> "none",
     connected |-> [d \in Branch |-> FALSE],
     logged_in |-> [d \in Branch |-> FALSE]]

MainIdle ==
    [run |-> 1, tier |-> 0, start_branch |-> "",
     summary |-> [b \in Branch |-> <<"?", "no result">>], overall_ok |-> TRUE,
     shutdown |-> FALSE]

\* What has been observed of the run so far: how each tier flow ended, which
\* tiers were started, whether a teardown call raised, how the previous run's
\* capture ended, and the commits made by this run.
HistInit ==
    [flow_end |-> [b \in Branch |-> NoResult], started |-> {},
     teardown_raised |-> FALSE, prev_capture |-> NoResult, new_commits |-> 0,
     commit_paths |-> {}, undeployed |-> {}]

\* No pass of the normalizer made yet.
NormIdle ==
    [input |-> << >>, text |-> << >>, passes |-> 0, wrote |-> FALSE,
     relation |-> "none", other_input |-> << >>, other |-> << >>]

NoRemote == [localRef |-> C1, remoteRef |-> NoRev, originTip |-> NoRev]

\* The repository with the staging and prod branches as given.
Repository(origin, stg, prd, co) ==
    [hasOrigin |-> origin,
     localRef |-> [b \in Branch |->
         IF b = "staging" THEN stg.localRef
         ELSE IF b = "prod" THEN prd.localRef ELSE C1],
     remoteRef |-> [b \in Branch |->
         IF b = "staging" THEN stg.remoteRef
         ELSE IF b = "prod" THEN prd.remoteRef ELSE C1],
     originTip |-> [b \in Branch |->
         IF b = "staging" THEN stg.originTip
         ELSE IF b = "prod" THEN prd.originTip ELSE C1],
     checkedOut |-> co,
     headXml |-> NoFile, indexXml |-> NoFile, plcopen_latest |-> NoFile,
     originXml |-> NoFile, noise |-> {}, staged |-> {}, ignoreRules |-> TRUE]

\* Without a remote named origin the refs under origin/ are leftovers: they
\* resolve (in sync) or they do not.
RefStatesFor(origin) == IF origin THEN RefStates ELSE {InSync, NoRemote}

InitCommon ==
    /\ script = "grab_archive"
    /\ pc = "main"
    /\ host = HostFresh
    /\ \E lay \in {"lines", "one"} : plc = [state |-> 1, layout |-> lay, changed |-> FALSE]
    /\ fl = FlowIdle
    /\ mn = MainIdle
    /\ hist = HistInit
    /\ norm = NormIdle

\* One run, on any repository, of an exporter that writes one tag per line
\* (the other layout is covered by SpecRerun and SpecScripts).
Init ==
    /\ InitCommon
    /\ budget = MaxFaults
    /\ plc.layout = "lines"
    /\ \E origin \in BOOLEAN, co \in {"main", "HEAD"} :
          \E stg \in RefStatesFor(origin), prd \in RefStatesFor(origin) :
             git = Repository(origin, stg, prd, co)

\* Several runs in a row, on a repository with at most one of the two deploy
\* branches out of sync with the remote.
InitRerun ==
    /\ InitCommon
    /\ budget = MaxRerunFaults
    /\ \E origin \in BOOLEAN, co \in {"main", "HEAD"} :
          \E stg \in RefStatesFor(origin), prd \in RefStatesFor(origin) :
             /\ stg = InSync \/ prd = InSync
             /\ git = Repository(origin, stg, prd, co)

branch == BRANCHES[mn.tier]

(***************************************************************************)
(* GIT HELPERS                                                             *)
(***************************************************************************)
\* _git_rev(ref): the commit id, or "" when rev-parse fails.
git_rev_local(b) == git.localRef[b]
git_rev_remote(b) == git.remoteRef[b]

\* A gate that never closes, which C1 must tell from the code's gate.
has_new_always(local, remote) == TRUE

\* The comparison without the test for ids that did not resolve (a variant of
\* the model, not the program's).
has_new_unguarded(local, remote) == local # remote

\* _git_remote_has_new_commit: the has_new it returns for the two ids.
git_remote_has_new_commit(local, remote) ==
    IF local = NoRev \/ remote = NoRev THEN FALSE ELSE local # remote

\* git fetch origin, exit code 0: every remote-tracking ref is brought to the
\* remote's branch.
fetched_refs == [b \in Branch |-> git.originTip[b]]

\* _git_current_branch
git_current_branch == IF git.checkedOut # "HEAD" THEN git.checkedOut ELSE "unknown"

\* A summary that reports every tier as OK, which C2 must tell from the
\* code's mapping.
status_always_ok(ok) == "OK"

\* main's mapping of a flow's ok to the summary status.
summary_status(ok) == IF ok THEN "OK" ELSE "FAIL"

\* The position after a tier has been recorded.
after_tier(t) == IF t < Len(BRANCHES) THEN "checkout" ELSE "restore"

(***************************************************************************)
(* grab_archive.py: main                                                   *)
(***************************************************************************)
\* main up to the tier loop: project discovery, start branch, first fetch.
main_begin ==
    /\ pc = "main"
    /\ script = "grab_archive"
    /\ \/ \* discover_projects raises: the exception reaches the module's handler
          /\ MayFail
          /\ budget' = budget - 1
          /\ pc' = "top_except"
          /\ UNCHANGED <<git, mn>>
       \/ \* no argument, or REPO_ROOT is no repository: system.exit() at once
          /\ mn' = [mn EXCEPT !.shutdown = TRUE]
          /\ pc' = "exited"
          /\ UNCHANGED <<git, budget>>
       \/ \E fetch_ok \in BOOLEAN :
          /\ fetch_ok \/ MayFail
          /\ budget' = IF fetch_ok THEN budget ELSE budget - 1
          /\ git' = IF git.hasOrigin /\ fetch_ok
                    THEN [git EXCEPT !.remoteRef = fetched_refs] ELSE git
          /\ mn' = [mn EXCEPT !.start_branch = git_current_branch, !.tier = 1,
                              !.summary = [b \in Branch |-> <<"?", "no result">>],
                              !.overall_ok = TRUE]
          /\ pc' = "checkout"
    /\ UNCHANGED <<script, host, plc, fl, hist, norm>>

\* The head of the loop body: _git_checkout(branch), _git_ensure_upstream.
\* git checkout -B <b> origin/<b>: the branch is reset to the remote-tracking
\* ref and checked out; on dev the artifact is then the one of origin/dev.
checkout_reset(b) ==
    [git EXCEPT !.checkedOut = b,
                !.localRef[b] = git.remoteRef[b],
                !.headXml = IF b = "dev" THEN git.originXml ELSE @,
                !.indexXml = IF b = "dev" THEN git.originXml ELSE @,
                !.plcopen_latest = IF b = "dev" THEN git.originXml ELSE @]

main_checkout ==
    /\ pc = "checkout"
    /\ \/ \* git checkout <branch> exits 0
          /\ git' = [git EXCEPT !.checkedOut = branch]
          /\ fl' = FlowIdle
          /\ hist' = [hist EXCEPT !.started = @ \cup {branch}]
          /\ pc' = IF branch = "dev" THEN "open" ELSE "dep_gate"
          /\ UNCHANGED <<budget, mn>>
       \/ \* it fails and git checkout -B <branch> origin/<branch> exits 0
          /\ MayFail /\ git.remoteRef[branch] # NoRev
          /\ budget' = budget - 1
          /\ git' = checkout_reset(branch)
          /\ fl' = FlowIdle
          /\ hist' = [hist EXCEPT !.started = @ \cup {branch}]
          /\ pc' = IF branch = "dev" THEN "open" ELSE "dep_gate"
          /\ UNCHANGED mn
       \/ \* both fail: the tier is recorded and the loop continues
          /\ MayFail
          /\ budget' = budget - 1
          /\ fl' = [FlowIdle EXCEPT !.ret = Return(FALSE, "checkout failed")]
          /\ hist' = [hist EXCEPT !.started = @ \cup {branch},
                                  !.flow_end[branch] = Return(FALSE, "checkout failed")]
          /\ mn' = [mn EXCEPT !.summary[branch] = <<"FAIL", "checkout failed">>,
                              !.overall_ok = FALSE,
                              !.tier = IF @ < Len(BRANCHES) THEN @ + 1 ELSE @]
          /\ pc' = after_tier(mn.tier)
          /\ UNCHANGED git
    /\ UNCHANGED <<script, host, plc, norm>>

\* The tail of the loop body: the flow's result, or the exception it raised,
\* becomes the tier's summary entry.
\* The flow that ends fast-forwarded its branch to commits of origin and did
\* not download them to the controller.
pulled_not_applied ==
    /\ fl.gate = "open"
    /\ "pull" \in fl.calls
    /\ git.localRef[branch] # fl.local_sha
    /\ ~(fl.ret.kind = "return" /\ fl.ret.ok)

\* The flow that ends downloaded its branch to the controller.
applied == fl.ret = Return(TRUE, "deployed (%s)")

main_record ==
    /\ pc = "record"
    /\ script = "grab_archive"
    /\ mn' = [mn EXCEPT
                !.summary[branch] =
                    IF fl.ret.kind = "return"
                    THEN <<summary_status(fl.ret.ok), fl.ret.msg>>
                    ELSE <<"FAIL", "exception: " \o fl.ret.msg>>,
                !.overall_ok = IF fl.ret.kind = "return" /\ fl.ret.ok THEN @ ELSE FALSE,
                !.tier = IF @ < Len(BRANCHES) THEN @ + 1 ELSE @]
    /\ hist' = [hist EXCEPT !.flow_end[branch] = fl.ret,
                            !.undeployed = IF pulled_not_applied THEN @ \cup {branch}
                                           ELSE IF applied THEN @ \ {branch}
                                           ELSE @]
    /\ pc' = after_tier(mn.tier)
    /\ UNCHANGED <<script, budget, git, host, plc, fl, norm>>

\* After the loop: back to the start branch, the summary, system.exit().
main_end ==
    /\ pc = "restore"
    /\ \/ \* git checkout <start_branch> exits 0
          /\ mn.start_branch # "unknown"
          /\ git' = [git EXCEPT !.checkedOut = mn.start_branch]
          /\ UNCHANGED budget
       \/ \* it fails and git checkout -B <start_branch> origin/<start_branch> exits 0
          /\ mn.start_branch # "unknown"
          /\ MayFail
          /\ mn.start_branch \in Branch => git.remoteRef[mn.start_branch] # NoRev
          /\ budget' = budget - 1
          /\ git' = IF mn.start_branch \in Branch THEN checkout_reset(mn.start_branch)
                    ELSE [git EXCEPT !.checkedOut = mn.start_branch]
       \/ \* both fail: the result of _git_checkout is dropped
          /\ mn.start_branch # "unknown"
          /\ MayFail
          /\ budget' = budget - 1
          /\ UNCHANGED git
       \/ /\ mn.start_branch = "unknown"
          /\ UNCHANGED <<git, budget>>
    /\ mn' = [mn EXCEPT !.shutdown = TRUE]
    /\ pc' = "exited"
    /\ UNCHANGED <<script, host, plc, fl, hist, norm>>

\* A handler that lets the exception go (a variant of the model, not the
\* program's handler).
top_level_reraise ==
    /\ pc = "top_except"
    /\ pc' = "crashed"
    /\ UNCHANGED <<script, budget, git, host, plc, fl, mn, hist, norm>>

\* The module's handler around main(): FATAL, the stack trace, then
\* system.exit() in a try of its own.
top_level_except ==
    /\ pc = "top_except"
    /\ mn' = [mn EXCEPT !.shutdown = TRUE]
    /\ pc' = "exited"
    /\ UNCHANGED <<script, budget, git, host, plc, fl, hist, norm>>

\* The script is started again: a new host process, the same repository; the
\* dev controller's program may have been changed in between.
next_run ==
    /\ pc = "exited"
    /\ script = "grab_archive"
    /\ mn.run < MaxRuns
    /\ pc' = "main"
    /\ host' = HostFresh
    /\ fl' = FlowIdle
    /\ mn' = [MainIdle EXCEPT !.run = mn.run + 1]
    /\ hist' = [HistInit EXCEPT !.prev_capture = hist.flow_end["dev"],
                                !.undeployed = hist.undeployed]
    /\ \E change \in BOOLEAN :
          plc' = [plc EXCEPT !.state = IF change THEN 3 - @ ELSE @, !.changed = change]
    /\ UNCHANGED <<script, budget, git, norm>>

(***************************************************************************)
(* grab_archive.py: run_deploy                                             *)
(***************************************************************************)
\* run_deploy up to its gate: origin check, fetch, the two commit ids, has_new.
run_deploy_gate ==
    /\ pc = "dep_gate"
    /\ \/ /\ ~git.hasOrigin
          /\ fl' = [fl EXCEPT !.ret = Return(FALSE, "no origin")]
          /\ pc' = "record"
          /\ UNCHANGED <<git, budget>>
       \/ /\ git.hasOrigin
          /\ \E fetch_ok \in BOOLEAN :
             LET refs == IF fetch_ok THEN fetched_refs ELSE git.remoteRef
                 local == git.localRef[branch]
                 remote == refs[branch]
                 has_new == git_remote_has_new_commit(local, remote)
             IN  /\ fetch_ok \/ MayFail
                 /\ budget' = IF fetch_ok THEN budget ELSE budget - 1
                 /\ git' = [git EXCEPT !.remoteRef = refs]
                 /\ fl' = [fl EXCEPT
                            !.fetched = IF fetch_ok THEN "ok" ELSE "failed",
                            !.local_sha = local, !.remote_sha = remote,
                            !.gate = IF has_new THEN "open" ELSE "closed",
                            !.calls = @ \cup {"fetch", "rev-parse"},
                            !.ret = IF has_new THEN @ ELSE Return(TRUE, "no remote changes")]
                 /\ pc' = IF has_new THEN "dep_pull" ELSE "record"
    /\ UNCHANGED <<script, host, plc, mn, hist, norm>>

\* A pull that, where no fast-forward is possible, resets the branch to the
\* remote's (a variant of the model, not the program's).
run_deploy_pull_forcing ==
    /\ pc = "dep_pull"
    /\ git.originTip[branch] # NoRev
    /\ git' = [git EXCEPT !.localRef[branch] = git.originTip[branch],
                          !.remoteRef[branch] = git.originTip[branch]]
    /\ fl' = [fl EXCEPT !.calls = @ \cup {"pull"},
                        !.ret = Return(FALSE, "ff-pull failed (branch diverged)")]
    /\ pc' = "record"
    /\ UNCHANGED <<script, budget, host, plc, mn, hist, norm>>

\* _git_fast_forward: git pull --ff-only origin <branch>.
run_deploy_pull ==
    /\ pc = "dep_pull"
    /\ LET local == git.localRef[branch]
           tip == git.originTip[branch]
           failed == [fl EXCEPT !.calls = @ \cup {"pull"},
                                !.ret = Return(FALSE, "ff-pull failed (branch diverged)")]
       IN  \/ \* the remote is ahead or equal: the branch is fast-forwarded
              /\ tip # NoRev /\ IsPrefix(local, tip)
              /\ git' = [git EXCEPT !.localRef[branch] = tip, !.remoteRef[branch] = tip]
              /\ fl' = [fl EXCEPT !.calls = @ \cup {"pull"}]
              /\ pc' = "open"
              /\ UNCHANGED budget
           \/ \* the local branch is ahead: "Already up to date", exit code 0
              /\ tip # NoRev /\ IsPrefix(tip, local) /\ tip # local
              /\ git' = [git EXCEPT !.remoteRef[branch] = tip]
              /\ fl' = [fl EXCEPT !.calls = @ \cup {"pull"}]
              /\ pc' = "open"
              /\ UNCHANGED budget
           \/ \* no fast-forward is possible, or the remote branch is gone
              /\ tip = NoRev \/ (~IsPrefix(local, tip) /\ ~IsPrefix(tip, local))
              /\ fl' = failed
              /\ pc' = "record"
              /\ UNCHANGED <<git, budget>>
           \/ \* the pull fails for another reason (the remote is unreachable)
              /\ MayFail
              /\ budget' = budget - 1
              /\ fl' = failed
              /\ pc' = "record"
              /\ UNCHANGED git
    /\ UNCHANGED <<script, host, plc, mn, hist, norm>>

\* The operation names with the first two exchanged (a variant of the model,
\* not the program's order).
method_names_exchanged == <<"application_download", "download", "program_download">>

\* _try_download_to_controller, the candidate names in their order.
method_names == <<"download", "application_download", "program_download">>

opt_names == <<"Download", "FullDownload", "All", "Keep">>

\* The invocations the two loops can make, in the order they make them: for
\* each operation, fn(opt, False) for each option, then fn().  The form
\* without argument carries the option "".
Candidates ==
    [k \in 1..(Len(method_names) * (Len(opt_names) + 1)) |->
        LET i == ((k - 1) \div (Len(opt_names) + 1)) + 1
            j == ((k - 1) % (Len(opt_names) + 1)) + 1
        IN  <<method_names[i], IF j <= Len(opt_names) THEN opt_names[j] ELSE "">>]

\* hasattr(online_app, m), and hasattr(OnlineChangeOption, opt_name) for the
\* forms with an option.
exposed(surface, c) ==
    /\ c[1] \in surface.methods
    /\ c[2] = "" \/ c[2] \in surface.options

\* "online_app.%s(%s)" % (m, opt_name), "online_app.%s()" % m.
tag(c) == "online_app." \o c[1] \o "(" \o c[2] \o ")"

\* The loops from candidate k on, with the invocations made so far.
RECURSIVE probe_from(_, _, _, _)
probe_from(k, surface, raising, invoked) ==
    IF k > Len(Candidates)
    THEN [ok |-> FALSE, used |-> "no working download method (last_err=%s)",
          invoked |-> invoked]
    ELSE IF ~exposed(surface, Candidates[k])
    THEN probe_from(k + 1, surface, raising, invoked)
    ELSE IF Candidates[k] \in raising
    THEN probe_from(k + 1, surface, raising, Append(invoked, Candidates[k]))
    ELSE [ok |-> TRUE, used |-> tag(Candidates[k]),
          invoked |-> Append(invoked, Candidates[k])]

\* _try_download_to_controller(online_app) on a session with the given
\* surface, where the invocations in raising raise: the pair it returns and
\* the invocations it made.
try_download_to_controller(surface, raising) ==
    IF ~surface.enum
    THEN [ok |-> FALSE, used |-> "OnlineChangeOption missing", invoked |-> << >>]
    ELSE probe_from(1, surface, raising, << >>)

\* The surfaces met in the tier flows: a build that exposes everything, and a
\* build with program_download() alone.
SessionSurfaces ==
    {[methods |-> {"download", "application_download", "program_download"},
      enum |-> TRUE, options |-> {"Download", "FullDownload", "All", "Keep"}],
     [methods |-> {"program_download"}, enum |-> TRUE, options |-> {}]}

\* The first n invocations that the probe can make on a surface.
first_exposed(surface, n) ==
    LET idx == {k \in 1..Len(Candidates) : exposed(surface, Candidates[k])}
    IN  {Candidates[k] : k \in {i \in idx : Cardinality({h \in idx : h <= i}) <= n}}

\* run_deploy from the download on: the probe, then online_app.start() when
\* the session has it, its exception swallowed.
\* A flow that a raising start fails (a variant of the model, not the
\* program's).
deploy_result_start_fatal(ok, start) ==
    IF ~ok THEN Return(FALSE, "download failed (%s)")
    ELSE IF start = "raises" THEN Raise("start")
    ELSE Return(TRUE, "deployed (%s)")

\* What run_deploy returns after the probe: online_app.start() is called in a
\* try of its own when the application has it, and its exception is dropped.
deploy_result(ok, start) ==
    IF ok THEN Return(TRUE, "deployed (%s)") ELSE Return(FALSE, "download failed (%s)")

run_deploy_download ==
    /\ pc = "dep_download"
    /\ \E surface \in SessionSurfaces, n \in 0..budget, start \in {"absent", "ok", "raises"} :
          LET raising == first_exposed(surface, n)
              r == try_download_to_controller(surface, raising)
          IN  /\ Cardinality(raising) = n
              /\ start # "absent" => r.ok
              /\ start = "raises" => budget - n > 0
              /\ budget' = budget - n - (IF start = "raises" THEN 1 ELSE 0)
              /\ fl' = [fl EXCEPT
                         !.calls = @ \cup {"download"}
                                     \cup (IF start = "absent" THEN {} ELSE {"start"}),
                         !.surface = surface,
                         !.raising = raising,
                         !.invoked = r.invoked,
                         !.used = r.used,
                         !.start = IF r.ok THEN start ELSE "",
                         !.ret = deploy_result(r.ok, start)]
    /\ pc' = "teardown"
    /\ UNCHANGED <<script, git, host, plc, mn, hist, norm>>

(***************************************************************************)
(* THE AUTOMATION HOST: project, online application, device.  The four     *)
(* scripts carry the same copies of these helpers; only the connect step   *)
(* differs (one call in grab_archive.py, a retry loop in the others).      *)
(***************************************************************************)
\* Where an exception raised outside a try block lands: the tier boundary of
\* grab_archive.main, the module's handler in the standalone scripts.
on_raise == IF script = "grab_archive" THEN "record" ELSE "top_except"

\* The first step of the try body that follows _connect_and_login.
try_body ==
    IF script = "grab_archive"
    THEN (IF branch = "dev" THEN "cap_pull" ELSE "dep_download")
    ELSE (IF script = "dev_capture" THEN "cap_pull" ELSE "boot_app")

\* _open_project_primary: close the primary project (best effort), then open
\* the tier's project unless a project is still primary.
open_project_primary ==
    /\ pc = "open"
    /\ \/ \* nothing is left open (or close() works), projects.open works
          /\ fl' = [fl EXCEPT !.proj = branch, !.calls = @ \cup {"open_project"}]
          /\ host' = [host EXCEPT !.primary = branch]
          /\ pc' = "wait_app"
          /\ UNCHANGED budget
       \/ \* nothing is left open (or close() works), projects.open raises
          /\ MayFail
          /\ budget' = budget - 1
          /\ fl' = [fl EXCEPT !.calls = @ \cup {"open_project"},
                              !.ret = Raise("projects.open")]
          /\ host' = [host EXCEPT !.primary = "none"]
          /\ pc' = on_raise
       \/ \* close() raises and is swallowed: the project left open is returned
          /\ host.primary # "none"
          /\ MayFail
          /\ budget' = budget - 1
          /\ fl' = [fl EXCEPT !.proj = host.primary, !.calls = @ \cup {"open_project"}]
          /\ pc' = "wait_app"
          /\ UNCHANGED host
    /\ UNCHANGED <<script, git, plc, mn, hist, norm>>

\* _wait_active_app and the caller's test of its result.
wait_active_app ==
    /\ pc = "wait_app"
    /\ \/ /\ pc' = IF script = "deploy_staging" THEN "import" ELSE "cl_create"
          /\ UNCHANGED <<fl, budget>>
       \/ /\ MayFail
          /\ budget' = budget - 1
          /\ fl' = [fl EXCEPT !.ret = Return(FALSE, "active_application timeout")]
          /\ pc' = IF script = "grab_archive" THEN "record" ELSE "exited"
    /\ UNCHANGED <<script, git, host, plc, mn, hist, norm>>

\* _connect_and_login, first part: online.create_online_application(app),
\* get_online_device, the credentials.
cl_create ==
    /\ pc = "cl_create"
    /\ \/ /\ fl' = [fl EXCEPT !.online_app = fl.proj,
                              !.calls = @ \cup {"create_online_application"}]
          /\ pc' = IF script = "grab_archive" THEN "cl_connect" ELSE "cl_retry"
          /\ UNCHANGED budget
       \/ /\ MayFail
          /\ budget' = budget - 1
          /\ fl' = [fl EXCEPT !.calls = @ \cup {"create_online_application"},
                              !.ret = Raise("create_online_application")]
          /\ pc' = on_raise
    /\ UNCHANGED <<script, git, host, plc, mn, hist, norm>>

\* grab_archive._connect_and_login: the single dev.connect().
cl_connect ==
    /\ pc = "cl_connect"
    /\ \/ \* already connected
          /\ host.connected[fl.online_app]
          /\ pc' = "cl_poll"
          /\ UNCHANGED <<fl, budget>>
       \/ \* connect() returns; the device comes up within the timeout, or never
          /\ ~host.connected[fl.online_app]
          /\ \E up \in BOOLEAN :
             /\ up \/ MayFail
             /\ budget' = IF up THEN budget ELSE budget - 1
             /\ fl' = [fl EXCEPT !.connecting = up, !.attempt = @ + 1,
                                 !.calls = @ \cup {"connect"}]
          /\ pc' = "cl_poll"
       \/ \* connect() raises
          /\ ~host.connected[fl.online_app]
          /\ MayFail
          /\ budget' = budget - 1
          /\ fl' = [fl EXCEPT !.attempt = @ + 1, !.connect_raised = @ + 1,
                              !.calls = @ \cup {"connect"},
                              !.ret = Raise("dev.connect failed")]
          /\ pc' = "record"
    /\ UNCHANGED <<script, git, host, plc, mn, hist, norm>>

\* The poll loop on dev.connected and the test after it.
\* A function that goes on to the login without the wait (a variant of the
\* model, not the program's).
cl_poll_skipped ==
    /\ pc = "cl_poll"
    /\ pc' = "cl_login"
    /\ UNCHANGED <<script, budget, git, host, plc, fl, mn, hist, norm>>

cl_poll ==
    /\ pc = "cl_poll"
    /\ \/ /\ host.connected[fl.online_app]
          /\ pc' = "cl_login"
          /\ UNCHANGED <<fl, host>>
       \/ \* time.sleep(0.5); a device that is coming up is up by the last poll
          /\ ~host.connected[fl.online_app]
          /\ fl.polls < MaxPolls
          /\ \E up \in BOOLEAN :
             /\ up => fl.connecting
             /\ (fl.connecting /\ fl.polls + 1 = MaxPolls) => up
             /\ host' = [host EXCEPT !.connected[fl.online_app] = up]
          /\ fl' = [fl EXCEPT !.polls = @ + 1]
          /\ pc' = "cl_poll"
       \/ \* the timeout has expired
          /\ ~host.connected[fl.online_app]
          /\ fl.polls >= MaxPolls
          /\ fl' = [fl EXCEPT !.ret = Raise(IF script = "grab_archive"
                                            THEN "Device did not connect within timeout"
                                            ELSE "Device did not connect (last_err=%s)")]
          /\ pc' = on_raise
          /\ UNCHANGED host
    /\ UNCHANGED <<script, budget, git, plc, mn, hist, norm>>

\* The login step of _connect_and_login.
\* A login that forces a download (a variant of the model, not the program's).
login_option_download == "Download"

\* online_app.login(OnlineChangeOption.Keep, False): the option passed.
login_option == "Keep"

cl_login ==
    /\ pc = "cl_login"
    /\ \/ /\ host.logged_in[fl.online_app]
          /\ pc' = try_body
          /\ UNCHANGED <<fl, host, budget>>
       \/ /\ ~host.logged_in[fl.online_app]
          /\ host' = [host EXCEPT !.logged_in[fl.online_app] = TRUE]
          /\ fl' = [fl EXCEPT !.calls = @ \cup {"login"}, !.login_opt = login_option]
          /\ pc' = try_body
          /\ UNCHANGED budget
       \/ \* login raises, or returns with is_logged_in still false
          /\ ~host.logged_in[fl.online_app]
          /\ MayFail
          /\ budget' = budget - 1
          /\ \E msg \in {"online_app.login failed", "Login failed"} :
                fl' = [fl EXCEPT !.calls = @ \cup {"login"}, !.login_opt = login_option,
                                    !.ret = Raise(msg)]
          /\ pc' = on_raise
          /\ UNCHANGED host
    /\ UNCHANGED <<script, git, plc, mn, hist, norm>>

\* A teardown whose exceptions leave the finally clause and replace the result
\* of the flow (a variant of the model, not the program's teardown).
disconnect_propagating ==
    /\ pc = "teardown"
    /\ \E dis \in {"skip", "ok", "raises"}, lo \in {"ok", "raises"} :
       LET n == (IF dis = "raises" THEN 1 ELSE 0) + (IF lo = "raises" THEN 1 ELSE 0)
       IN  /\ (dis = "skip") = ~host.connected[fl.online_app]
           /\ n <= budget
           /\ budget' = budget - n
           /\ host' = [host EXCEPT
                        !.connected[fl.online_app] = IF dis = "ok" THEN FALSE ELSE @,
                        !.logged_in[fl.online_app] =
                            IF lo = "ok" /\ dis # "raises" THEN FALSE ELSE @]
           /\ fl' = [fl EXCEPT
                      !.calls = @ \cup {"_disconnect_best_effort"}
                                  \cup (IF dis = "raises" THEN {} ELSE {"logout"})
                                  \cup (IF dis = "skip" THEN {} ELSE {"disconnect"}),
                      !.ret = IF n > 0 THEN Raise("teardown") ELSE @]
           /\ hist' = [hist EXCEPT !.teardown_raised = @ \/ n > 0]
    /\ pc' = IF script = "grab_archive" THEN "record"
             ELSE IF fl.ret.kind = "raise" THEN "top_except" ELSE "exited"
    /\ UNCHANGED <<script, git, plc, mn, norm>>

\* _disconnect_best_effort, the finally clause of the try body.
disconnect_best_effort ==
    /\ pc = "teardown"
    /\ \E dis \in {"skip", "ok", "raises"}, lo \in {"ok", "raises"} :
       LET n == (IF dis = "raises" THEN 1 ELSE 0) + (IF lo = "raises" THEN 1 ELSE 0)
       IN  /\ (dis = "skip") = ~host.connected[fl.online_app]
           /\ n <= budget
           /\ budget' = budget - n
           /\ host' = [host EXCEPT
                        !.connected[fl.online_app] = IF dis = "ok" THEN FALSE ELSE @,
                        !.logged_in[fl.online_app] = IF lo = "ok" THEN FALSE ELSE @]
           /\ fl' = [fl EXCEPT !.calls = @ \cup {"_disconnect_best_effort", "logout"}
                                         \cup (IF dis = "skip" THEN {} ELSE {"disconnect"})]
           /\ hist' = [hist EXCEPT !.teardown_raised = @ \/ n > 0]
    /\ pc' = IF script = "grab_archive" THEN "record"
             ELSE IF fl.ret.kind = "raise" THEN "top_except" ELSE "exited"
    /\ UNCHANGED <<script, git, plc, mn, norm>>

(***************************************************************************)
(* THE EXPORT.  What export_xml writes for the dev controller's program:   *)
(* a header line with a fresh timestamp, then the PlaceholderRedirections  *)
(* block with the program's entries in some order, one per line or all on  *)
(* the line of the tags.                                                   *)
(***************************************************************************)
PlcEntryOrders(state) ==
    IF state = 1 THEN {<<EA, EB>>, <<EB, EA>>} ELSE {<<EA>>}

RECURSIVE entry_lines(_)
entry_lines(es) ==
    IF es = << >> THEN << >>
    ELSE <<SP, SP, SP, SP, Head(es), NL>> \o entry_lines(Tail(es))

ExportText(layout, es, ts) ==
    IF layout = "lines"
    THEN <<ts, NL, SP, SP, OPEN, NL>> \o entry_lines(es) \o <<SP, SP, CLOSE, NL>>
    ELSE <<ts, NL, SP, SP, OPEN>> \o es \o <<CLOSE, NL>>

(***************************************************************************)
(* grab_archive.py: run_capture (the try body)                             *)
(***************************************************************************)
\* The files a run leaves in the working tree that git status reports:
\* dev_capture.py writes its log and its timestamped archive under REPO_ROOT
\* and commits the whole tree, so they count unless the repository ignores
\* them; grab_archive.py commits one path only.
log_files ==
    IF script = "dev_capture" /\ ~git.ignoreRules THEN {"Logs/dev_capture_<ts>.log"} ELSE {}
archive_files ==
    IF script = "dev_capture" /\ ~git.ignoreRules
    THEN {"exports/archives/dev/PLC_DEV_<ts>.projectarchive"} ELSE {}

\* The source pull and proj.save_archive.
run_capture_source ==
    /\ pc = "cap_pull"
    /\ \/ /\ fl' = [fl EXCEPT !.calls = @ \cup {"source_download", "save_archive"}]
          /\ git' = [git EXCEPT !.noise = @ \cup archive_files]
          /\ pc' = "cap_export"
          /\ UNCHANGED <<budget, host>>
       \/ \* proj has no save_archive: a message is printed, no snapshot is written
          /\ script = "grab_archive"
          /\ MayFail
          /\ budget' = budget - 1
          /\ fl' = [fl EXCEPT !.calls = @ \cup {"source_download"}]
          /\ pc' = "cap_export"
          /\ UNCHANGED <<git, host>>
       \/ \* source_download or save_archive raises; source_download may raise
          \* because the controller has ended the session (is_logged_in false)
          /\ MayFail
          /\ budget' = budget - 1
          /\ \E what \in {"source_download", "save_archive"}, lost \in BOOLEAN :
                /\ lost => what = "source_download"
                /\ fl' = [fl EXCEPT
                        !.calls = @ \cup (IF what = "save_archive"
                                          THEN {"source_download", "save_archive"}
                                          ELSE {"source_download"}),
                        !.ret = Raise(what)]
                /\ host' = [host EXCEPT !.logged_in[fl.online_app] = IF lost THEN FALSE ELSE @]
          /\ pc' = "teardown"
          /\ UNCHANGED git
    /\ UNCHANGED <<script, plc, mn, hist, norm>>

\* A capture that goes on to the normalization after both exports failed (a
\* variant of the model, not the program's).
run_capture_export_unchecked ==
    /\ pc = "cap_export"
    /\ fl' = [fl EXCEPT !.calls = @ \cup {"export_xml"},
                        !.ret = Return(FALSE, "PLCopen export failed")]
    /\ pc' = "cap_normalize"
    /\ UNCHANGED <<script, budget, git, host, plc, mn, hist, norm>>

\* The two export attempts: app.export_xml, then proj.export_xml.
run_capture_export ==
    /\ pc = "cap_export"
    /\ \/ \E es \in PlcEntryOrders(plc.state), ts \in {TS1, TS2} :
          /\ git' = [git EXCEPT !.plcopen_latest = ExportText(plc.layout, es, ts)]
          /\ fl' = [fl EXCEPT !.calls = @ \cup {"export_xml"}]
          /\ pc' = "cap_normalize"
          /\ UNCHANGED budget
       \/ /\ MayFail
          /\ budget' = budget - 1
          /\ fl' = [fl EXCEPT !.calls = @ \cup {"export_xml"},
                              !.ret = Return(FALSE, "PLCopen export failed")]
          /\ pc' = "teardown"
          /\ UNCHANGED git
    /\ UNCHANGED <<script, host, plc, mn, hist, norm>>

\* normalize_plcopen_xml(plcopen_latest), each script with its own normalizer.
run_capture_normalize ==
    /\ pc = "cap_normalize"
    /\ \/ /\ \E ea_first \in BOOLEAN :
                git' = [git EXCEPT !.plcopen_latest =
                          IF script = "grab_archive" THEN normalize_plcopen_xml(@)
                          ELSE dev_capture_normalize_plcopen_xml(@, ea_first)]
          /\ UNCHANGED budget
       \/ \* reading or writing the file raises: the function prints a
          \* warning and returns, the file is as the export wrote it
          /\ MayFail
          /\ budget' = budget - 1
          /\ UNCHANGED git
    /\ fl' = [fl EXCEPT !.calls = @ \cup {"normalize"}]
    /\ pc' = IF script = "grab_archive" THEN "cap_diff" ELSE "commit_all"
    /\ UNCHANGED <<script, host, plc, mn, hist, norm>>

\* git status --porcelain -- <path>: empty when HEAD, index and file agree.
git_status_porcelain == ~(git.indexXml = git.headXml /\ git.plcopen_latest = git.indexXml)
\* git ls-files --error-unmatch <path>
git_is_tracked == git.indexXml # NoFile
\* git diff HEAD -- <path>
git_has_diff_against_head == git.plcopen_latest # git.headXml

\* run_capture's decision to commit: has_diff or a non-empty status line.
capture_must_commit ==
    (IF ~git_is_tracked THEN TRUE ELSE git_has_diff_against_head) \/ git_status_porcelain

run_capture_diff ==
    /\ pc = "cap_diff"
    /\ IF capture_must_commit
       THEN /\ pc' = "cap_commit"
            /\ fl' = [fl EXCEPT !.calls = @ \cup {"status", "diff"}]
       ELSE /\ pc' = "teardown"
            /\ fl' = [fl EXCEPT !.calls = @ \cup {"status", "diff"},
                                !.ret = Return(TRUE, "capture ok (no diff)")]
    /\ UNCHANGED <<script, budget, git, host, plc, mn, hist, norm>>

\* The path of the artifact, relative to the repository.
rel_xml == "exports/plcopen/PLC_latest.plcopen.xml"

\* A commit without a path: it takes everything staged (a variant of the
\* model, not the program's command).
git_commit_staged(paths, staged_paths) == staged_paths

\* git commit -m <msg> -- <path>: the commit takes the named paths only, and
\* what else is staged stays staged.
git_commit_only(paths, staged_paths) == paths

\* _git_add_commit_push_only_file and run_capture's use of its result.
run_capture_commit ==
    /\ pc = "cap_commit"
    /\ \/ \* git add fails
          /\ MayFail
          /\ budget' = budget - 1
          /\ fl' = [fl EXCEPT !.calls = @ \cup {"add"},
                              !.ret = Return(FALSE, "capture git failed (git add failed)")]
          /\ UNCHANGED <<git, hist>>
       \/ \* the file is added but not among the staged names
          /\ git.plcopen_latest = git.headXml
          /\ git' = [git EXCEPT !.indexXml = git.plcopen_latest]
          /\ fl' = [fl EXCEPT !.calls = @ \cup {"add"},
                              !.ret = Return(FALSE, "capture git failed (file not staged)")]
          /\ UNCHANGED <<budget, hist>>
       \/ \* git commit fails
          /\ git.plcopen_latest # git.headXml
          /\ MayFail
          /\ budget' = budget - 1
          /\ git' = [git EXCEPT !.indexXml = git.plcopen_latest]
          /\ fl' = [fl EXCEPT !.calls = @ \cup {"add", "commit"},
                              !.ret = Return(FALSE, "capture git failed (git commit failed)")]
          /\ UNCHANGED hist
       \/ \* the commit is made; the push (when origin exists) works or fails
          /\ git.plcopen_latest # git.headXml
          /\ \E push \in {"none", "ok", "fails"} :
             LET tip == Append(git.localRef["dev"], 1)
             IN  /\ (push = "none") = ~git.hasOrigin
                 /\ push = "fails" => MayFail
                 /\ budget' = IF push = "fails" THEN budget - 1 ELSE budget
                 /\ git' = [git EXCEPT
                             !.indexXml = git.plcopen_latest,
                             !.headXml = git.plcopen_latest,
                             !.originXml = IF push = "ok" THEN git.plcopen_latest ELSE @,
                             !.staged = (@ \cup {rel_xml})
                                        \ git_commit_only({rel_xml}, @ \cup {rel_xml}),
                             !.localRef["dev"] = tip,
                             !.remoteRef["dev"] = IF push = "ok" THEN tip ELSE @,
                             !.originTip["dev"] = IF push = "ok" THEN tip ELSE @]
                 /\ fl' = [fl EXCEPT
                            !.calls = @ \cup {"add", "commit"}
                                        \cup (IF push = "none" THEN {} ELSE {"push"}),
                            !.ret = IF push = "fails"
                                    THEN Return(FALSE, "capture git failed (git push failed)")
                                    ELSE Return(TRUE, "capture committed (committed+push)")]
                 /\ hist' = [hist EXCEPT
                              !.new_commits = @ + 1,
                              !.commit_paths =
                                  @ \cup git_commit_only({rel_xml}, git.staged \cup {rel_xml})]
    /\ pc' = "teardown"
    /\ UNCHANGED <<script, host, plc, mn, norm>>

(***************************************************************************)
(* SPECIFICATION of grab_archive.py                                        *)
(***************************************************************************)
Next ==
    \/ main_begin
    \/ main_checkout
    \/ run_deploy_gate
    \/ run_deploy_pull
    \/ run_deploy_download
    \/ open_project_primary
    \/ wait_active_app
    \/ cl_create
    \/ cl_connect
    \/ cl_poll
    \/ cl_login
    \/ run_capture_source
    \/ run_capture_export
    \/ run_capture_normalize
    \/ run_capture_diff
    \/ run_capture_commit
    \/ disconnect_best_effort
    \/ main_record
    \/ main_end
    \/ top_level_except

Spec == Init /\ [][Next]_vars

\* The artifact as an earlier run committed it, with the device in the given
\* state.
CapturedXml(state) ==
    normalize_plcopen_xml(
        ExportText("lines", CHOOSE es \in PlcEntryOrders(state) : es[1] = EA, TS1))

\* What the repository holds of the artifact when a run starts: nothing yet;
\* the capture of the device as it is now, or as it was before a change,
\* committed and pushed; or such a commit with a later capture staged on top
\* of it by a run whose commit failed.
ArtifactStates ==
    {[headXml |-> NoFile, indexXml |-> NoFile, plcopen_latest |-> NoFile],
     [headXml |-> CapturedXml(1), indexXml |-> CapturedXml(1), plcopen_latest |-> CapturedXml(1)],
     [headXml |-> CapturedXml(2), indexXml |-> CapturedXml(2), plcopen_latest |-> CapturedXml(2)],
     [headXml |-> CapturedXml(1), indexXml |-> CapturedXml(2), plcopen_latest |-> CapturedXml(2)]}

\* Other paths of the working copy: one staged and one untracked, or none.
OtherPaths == {[staged |-> {}, noise |-> {}],
               [staged |-> {"README.md"}, noise |-> {"notes.txt"}]}

\* One run with the capture in view: the repository has a history of the
\* artifact and other work in progress, and the run may start on dev.
InitCapture ==
    /\ InitCommon
    /\ plc.layout = "lines"
    /\ budget = MaxFaults
    /\ \E origin \in BOOLEAN, co \in {"main", "dev", "HEAD"}, art \in ArtifactStates,
          other \in OtherPaths :
          \E stg \in {rs \in RefStatesFor(origin) : rs.localRef = rs.originTip
                                                    \/ rs.remoteRef = C11} :
             git = [Repository(origin, stg, InSync, co) EXCEPT
                      !.headXml = art.headXml,
                      !.indexXml = art.indexXml,
                      !.plcopen_latest = art.plcopen_latest,
                      !.originXml = art.headXml,
                      !.staged = other.staged,
                      !.noise = other.noise]

SpecCapture == InitCapture /\ [][Next]_vars

\* The steps of Next other than the normalisation of the export.
NextButNormalize ==
    \/ main_begin
    \/ main_checkout
    \/ run_deploy_gate
    \/ run_deploy_pull
    \/ run_deploy_download
    \/ open_project_primary
    \/ wait_active_app
    \/ cl_create
    \/ cl_connect
    \/ cl_poll
    \/ cl_login
    \/ run_capture_source
    \/ run_capture_export
    \/ run_capture_diff
    \/ run_capture_commit
    \/ disconnect_best_effort
    \/ main_record
    \/ main_end
    \/ top_level_except

\* The same run, which goes on as long as it has a step to take: every call
\* the script makes returns or raises, and the normalisation of the export,
\* a pass over a finite text, returns.
SpecCaptureLive ==
    SpecCapture /\ WF_vars(NextButNormalize) /\ []<>(pc # "cap_normalize")

\* The script run again and again: MaxRuns runs in a row.
NextRerun == Next \/ next_run

SpecRerun == InitRerun /\ [][NextRerun]_vars

(***************************************************************************)
(* THE STANDALONE SCRIPTS: dev_capture.py, deploy_staging.py,              *)
(* deploy_prod.py.  system.exit() ends the script; inside the try body it  *)
(* leaves through the finally clause.                                      *)
(***************************************************************************)
\* A connect loop of four attempts, which C5 must tell from the code's loop.
FourConnectAttempts == <<1, 2, 3, 4>>

\* for attempt in [1, 2, 3] (dev_capture.py), range(1, 4) (deploy scripts).
ConnectAttempts == <<1, 2, 3>>

\* The start of main: the run's log file, then _git_checkout (dev_capture.py)
\* or the checkout half of _git_checkout_and_update (deploy scripts).
script_checkout ==
    /\ pc = "main"
    /\ script \in {"dev_capture", "deploy_staging", "deploy_prod"}
    /\ \/ \* git checkout <branch> exits 0
          /\ git' = [git EXCEPT !.checkedOut = branch, !.noise = @ \cup log_files]
          /\ pc' = IF script = "dev_capture" THEN "open" ELSE "update"
          /\ UNCHANGED <<budget, fl>>
       \/ \* it fails and git checkout -B <branch> origin/<branch> exits 0
          /\ MayFail /\ git.remoteRef[branch] # NoRev
          /\ budget' = budget - 1
          /\ git' = [git EXCEPT !.checkedOut = branch,
                                !.localRef[branch] = git.remoteRef[branch],
                                !.noise = @ \cup log_files]
          /\ pc' = IF script = "dev_capture" THEN "open" ELSE "update"
          /\ UNCHANGED fl
       \/ \* both fail
          /\ MayFail
          /\ budget' = budget - 1
          /\ git' = [git EXCEPT !.noise = @ \cup log_files]
          /\ fl' = [fl EXCEPT !.ret = Return(FALSE, "checkout failed")]
          /\ pc' = "exited"
    /\ hist' = [hist EXCEPT !.started = @ \cup {branch}]
    /\ UNCHANGED <<script, host, plc, mn, norm>>

\* The pull half of _git_checkout_and_update, and deploy_staging's test that
\* the PLCopen file is in the branch.
script_update ==
    /\ pc = "update"
    /\ LET local == git.localRef[branch]
           tip == git.originTip[branch]
           new_local == IF IsPrefix(local, tip) THEN tip ELSE local
       IN  \/ \* git pull --ff-only origin <branch> exits 0
              /\ git.hasOrigin /\ tip # NoRev
              /\ IsPrefix(local, tip) \/ IsPrefix(tip, local)
              /\ git' = [git EXCEPT !.localRef[branch] = new_local,
                                    !.remoteRef[branch] = tip]
              /\ IF script = "deploy_staging" /\ git.headXml = NoFile
                 THEN /\ pc' = "exited"
                      /\ fl' = [fl EXCEPT
                                 !.local_sha = local, !.remote_sha = tip,
                                 !.pulled = IF new_local = local THEN "nothing" ELSE "commits",
                                 !.calls = @ \cup {"pull"},
                                 !.ret = Return(FALSE, "PLCopen XML not found")]
                 ELSE /\ pc' = "open"
                      /\ fl' = [fl EXCEPT
                                 !.local_sha = local, !.remote_sha = tip,
                                 !.pulled = IF new_local = local THEN "nothing" ELSE "commits",
                                 !.calls = @ \cup {"pull"}]
              /\ UNCHANGED budget
           \/ \* it fails: no origin, no such remote branch, no fast-forward
              /\ ~git.hasOrigin \/ tip = NoRev
                 \/ (~IsPrefix(local, tip) /\ ~IsPrefix(tip, local))
              /\ fl' = [fl EXCEPT !.calls = @ \cup {"pull"},
                                  !.ret = Return(FALSE, "git checkout/pull failed")]
              /\ pc' = "exited"
              /\ UNCHANGED <<git, budget>>
           \/ \* it fails for another reason (the remote is unreachable)
              /\ MayFail
              /\ budget' = budget - 1
              /\ fl' = [fl EXCEPT !.calls = @ \cup {"pull"},
                                  !.ret = Return(FALSE, "git checkout/pull failed")]
              /\ pc' = "exited"
              /\ UNCHANGED git
    /\ UNCHANGED <<script, host, plc, mn, hist, norm>>

\* deploy_staging._import_plcopen_into_project and main's test of its result.
import_plcopen_into_project ==
    /\ pc = "import"
    /\ \/ /\ fl' = [fl EXCEPT !.calls = @ \cup {"import_xml"}]
          /\ pc' = "cl_create"
          /\ UNCHANGED budget
       \/ /\ MayFail
          /\ budget' = budget - 1
          /\ fl' = [fl EXCEPT !.calls = @ \cup {"import_xml"},
                              !.ret = Return(FALSE, "PLCopen import failed")]
          /\ pc' = "exited"
    /\ UNCHANGED <<script, git, host, plc, mn, hist, norm>>

\* _connect_and_login of the standalone scripts: one pass of the connect
\* loop.  A raising connect is the device's doing and is not counted against
\* the failures injected.
cl_retry ==
    /\ pc = "cl_retry"
    /\ fl.attempt < Len(ConnectAttempts)
    /\ \/ \* already connected: break
          /\ host.connected[fl.online_app]
          /\ pc' = "cl_poll"
          /\ UNCHANGED <<fl, budget>>
       \/ \* connect() returns: break; the device comes up in time, or never
          /\ ~host.connected[fl.online_app]
          /\ \E up \in BOOLEAN :
             /\ up \/ MayFail
             /\ budget' = IF up THEN budget ELSE budget - 1
             /\ fl' = [fl EXCEPT !.connecting = up, !.attempt = @ + 1,
                                 !.calls = @ \cup {"connect"}]
          /\ pc' = "cl_poll"
       \/ \* connect() raises: last_err, sleep, the next attempt if one is left.
          \* The device may come up all the same (late): the next pass, if
          \* there is one, then finds it connected and breaks, and the poll
          \* after the loop is what reads dev.connected.
          /\ ~host.connected[fl.online_app]
          /\ \E late \in BOOLEAN :
             /\ fl' = [fl EXCEPT !.connecting = late, !.attempt = @ + 1,
                                 !.connect_raised = @ + 1,
                                 !.calls = @ \cup {"connect"}]
             /\ pc' = IF ~late /\ fl.attempt + 1 < Len(ConnectAttempts)
                      THEN "cl_retry" ELSE "cl_poll"
          /\ UNCHANGED budget
    /\ UNCHANGED <<script, git, host, plc, mn, hist, norm>>

\* _deploy_via_boot_application and main's test of its result (the try body
\* of the deploy scripts).
deploy_via_boot_application ==
    /\ pc = "boot_app"
    /\ \/ /\ fl' = [fl EXCEPT !.calls = @ \cup {"create_boot_application"},
                              !.used = "OnlineApp.create_boot_application()",
                              !.ret = Return(TRUE, "DEPLOY OK")]
          /\ UNCHANGED budget
       \/ /\ MayFail
          /\ budget' = budget - 1
          /\ \E why \in {"create_boot_application not available",
                         "create_boot_application failed"} :
                fl' = [fl EXCEPT
                        !.calls = @ \cup (IF why = "create_boot_application failed"
                                          THEN {"create_boot_application"} ELSE {}),
                        !.used = why,
                        !.ret = Return(FALSE, "deploy failed")]
    /\ pc' = "teardown"
    /\ UNCHANGED <<script, git, host, plc, mn, hist, norm>>

\* dev_capture._git_status_porcelain: the whole working tree.
git_status_porcelain_all ==
    git.plcopen_latest # git.headXml \/ git.indexXml # git.headXml \/ git.noise # {}

\* dev_capture._git_commit_all_if_dirty and main's test of its result.
git_commit_all_if_dirty ==
    /\ pc = "commit_all"
    /\ \/ \* the status is empty
          /\ ~git_status_porcelain_all
          /\ fl' = [fl EXCEPT !.calls = @ \cup {"status"}, !.ret = Return(TRUE, "clean")]
          /\ UNCHANGED <<git, budget, hist>>
       \/ \* git status fails: its output is taken as empty
          /\ MayFail
          /\ budget' = budget - 1
          /\ fl' = [fl EXCEPT !.calls = @ \cup {"status"}, !.ret = Return(TRUE, "clean")]
          /\ UNCHANGED <<git, hist>>
       \/ \* git add -A or git commit fails
          /\ git_status_porcelain_all
          /\ MayFail
          /\ budget' = budget - 1
          /\ \E note \in {"git add -A failed", "git commit failed"} :
                fl' = [fl EXCEPT
                        !.calls = @ \cup (IF note = "git commit failed"
                                          THEN {"status", "add", "commit"}
                                          ELSE {"status", "add"}),
                        !.ret = Return(FALSE, note)]
          /\ UNCHANGED <<git, hist>>
       \/ \* the whole tree is committed; the push (when origin exists) works or fails
          /\ git_status_porcelain_all
          /\ \E push \in {"none", "ok", "fails"} :
             LET tip == Append(git.localRef["dev"], 1)
             IN  /\ (push = "none") = ~git.hasOrigin
                 /\ push = "fails" => MayFail
                 /\ budget' = IF push = "fails" THEN budget - 1 ELSE budget
                 /\ git' = [git EXCEPT
                             !.indexXml = git.plcopen_latest,
                             !.headXml = git.plcopen_latest,
                             !.noise = {},
                             !.localRef["dev"] = tip,
                             !.remoteRef["dev"] = IF push = "ok" THEN tip ELSE @,
                             !.originTip["dev"] = IF push = "ok" THEN tip ELSE @]
                 /\ fl' = [fl EXCEPT
                            !.calls = @ \cup {"status", "add", "commit"}
                                        \cup (IF push = "none" THEN {} ELSE {"push"}),
                            !.ret = IF push = "fails" THEN Return(FALSE, "git push failed")
                                    ELSE Return(TRUE, "committed+push")]
                 /\ hist' = [hist EXCEPT !.new_commits = @ + 1]
    /\ pc' = "teardown"
    /\ UNCHANGED <<script, host, plc, mn, norm>>

\* dev_capture.py is started again: a new host process, the same repository;
\* the dev controller's program may have been changed in between.
script_rerun ==
    /\ pc = "exited"
    /\ script = "dev_capture"
    /\ mn.run < MaxRuns
    /\ pc' = "main"
    /\ host' = HostFresh
    /\ fl' = FlowIdle
    /\ mn' = [mn EXCEPT !.run = @ + 1]
    /\ hist' = [HistInit EXCEPT !.prev_capture = fl.ret]
    /\ \E change \in BOOLEAN :
          plc' = [plc EXCEPT !.state = IF change THEN 3 - @ ELSE @, !.changed = change]
    /\ UNCHANGED <<script, budget, git, norm>>

\* The tier of each standalone script.
ScriptTier == [dev_capture |-> 1, deploy_staging |-> 2, deploy_prod |-> 3]

\* The PLCopen file as a capture of the two-entry program leaves it.
CommittedXml ==
    dev_capture_normalize_plcopen_xml(ExportText("lines", <<EA, EB>>, TS1), TRUE)

InitScripts ==
    /\ script \in {"dev_capture", "deploy_staging", "deploy_prod"}
    /\ pc = "main"
    /\ budget = MaxFaults
    /\ host = HostFresh
    /\ \E lay \in {"lines", "one"} : plc = [state |-> 1, layout |-> lay, changed |-> FALSE]
    /\ fl = FlowIdle
    /\ mn = [MainIdle EXCEPT !.tier = ScriptTier[script]]
    /\ hist = HistInit
    /\ norm = NormIdle
    /\ \E origin \in BOOLEAN, ref \in RefStates, ignore \in BOOLEAN,
          xml \in {NoFile, CommittedXml} :
          /\ script = "dev_capture" => ref = InSync
          /\ script # "dev_capture" => ignore
          /\ script # "deploy_staging" => xml = NoFile
          /\ git = [Repository(origin,
                               IF script = "deploy_staging" THEN ref ELSE InSync,
                               IF script = "deploy_prod" THEN ref ELSE InSync,
                               "main")
                    EXCEPT !.ignoreRules = ignore,
                           !.headXml = xml, !.indexXml = xml, !.plcopen_latest = xml]

NextScripts ==
    \/ script_checkout
    \/ script_update
    \/ open_project_primary
    \/ wait_active_app
    \/ import_plcopen_into_project
    \/ cl_create
    \/ cl_retry
    \/ cl_poll
    \/ cl_login
    \/ deploy_via_boot_application
    \/ run_capture_source
    \/ run_capture_export
    \/ run_capture_normalize
    \/ git_commit_all_if_dirty
    \/ disconnect_best_effort
    \/ top_level_except
    \/ script_rerun

SpecScripts == InitScripts /\ [][NextScripts]_vars

(***************************************************************************)
(* grab_archive.normalize_plcopen_xml run over one file, pass after pass   *)
(***************************************************************************)
\* The sequences over S of length at most n.
SeqsUpTo(S, n) == UNION {[1..k -> S] : k \in 0..n}

\* The contents of a block: entries and the whitespace between them in any
\* arrangement.
BlockBodies == SeqsUpTo({NL, SP, EAW, EA, EAR, EB}, MaxBody)

\* The text before the block: a header with a timestamp, the block's opening
\* tag on the header's line, on a line of its own, or indented.
Headers == {<< >>, <<TS1, NL>>, <<TS1, NL, SP, SP>>}

\* Well-formed inputs: a header, then the block with its tags on one line or
\* on lines of their own; the block in its self-closing short form; and
\* texts without a block.
NormInputs ==
    {pre \o <<OPEN>> \o body \o <<CLOSE>> \o post :
        pre \in Headers, body \in BlockBodies, post \in {<< >>, <<NL>>}}
    \cup {pre \o <<SELF>> \o post : pre \in Headers, post \in {<< >>, <<NL>>}}
    \cup {<< >>, <<TS1>>, <<TS2, NL>>}

\* The same header exported at another time: it differs in the value of its
\* timestamp only.
other_timestamps(pre) ==
    {[i \in 1..Len(pre) |-> IF pre[i] = TS1 THEN ts ELSE pre[i]] : ts \in {TS1, TS2}}

\* The same body with its entries in another order: the whitespace stays
\* where it is and the entries are permuted.
reordered(body) ==
    {[i \in 1..Len(body) |-> body[p[i]]] :
        p \in {q \in Permutations(1..Len(body)) :
                 \A i \in 1..Len(body) : body[i] \in {NL, SP} => q[i] = i}}

\* The entries of a body in their order, whitespace between them dropped and
\* whitespace inside them brought to one form.
RECURSIVE entries_of(_)
entries_of(body) ==
    IF body = << >> THEN << >>
    ELSE (IF Head(body) \in {NL, SP} THEN << >>
          ELSE IF Head(body) = EAW THEN <<EA>> ELSE <<Head(body)>>)
         \o entries_of(Tail(body))

\* The bodies that hold the same entries in the same order and differ in
\* whitespace only.
respaced(body) == {b \in BlockBodies : entries_of(b) = entries_of(body)}

InitNormalize ==
    /\ script \in {"grab_archive", "dev_capture"}
    /\ pc = "normalize"
    /\ budget = 0
    /\ git = Repository(TRUE, InSync, InSync, "dev")
    /\ host = HostFresh
    /\ plc = [state |-> 1, layout |-> "lines", changed |-> FALSE]
    /\ fl = FlowIdle
    /\ mn = MainIdle
    /\ hist = HistInit
    /\ \/ \E x \in NormInputs :
             norm = [NormIdle EXCEPT !.input = x, !.text = x,
                                     !.other_input = x, !.other = x]
       \/ \E pre \in Headers, body \in BlockBodies, post \in {<< >>, <<NL>>} :
            LET x == pre \o <<OPEN>> \o body \o <<CLOSE>> \o post
            IN  \/ \E pre2 \in other_timestamps(pre), body2 \in reordered(body) :
                      LET y == pre2 \o <<OPEN>> \o body2 \o <<CLOSE>> \o post
                      IN  norm = [NormIdle EXCEPT !.input = x, !.text = x,
                                                  !.relation = "order_timestamps",
                                                  !.other_input = y, !.other = y]
                \/ \E body2 \in respaced(body) :
                      LET y == pre \o <<OPEN>> \o body2 \o <<CLOSE>> \o post
                      IN  norm = [NormIdle EXCEPT !.input = x, !.text = x,
                                                  !.relation = "whitespace",
                                                  !.other_input = y, !.other = y]

\* normalize_plcopen_xml of the script under study.  set_order is the
\* iteration order of the set of tags, which only dev_capture builds.
normalize_of(text, set_order) ==
    IF script = "grab_archive" THEN normalize_plcopen_xml(text)
    ELSE dev_capture_normalize_plcopen_xml(text, set_order)

\* One call of normalize_plcopen_xml(path) on each of the two artifacts: a
\* file is written only when the normalized text differs from the text read.
normalize_pass ==
    /\ pc = "normalize"
    /\ norm.passes < MaxPasses
    /\ \E o1 \in BOOLEAN, o2 \in BOOLEAN :
          norm' = [norm EXCEPT !.text = normalize_of(@, o1),
                               !.other = normalize_of(@, o2),
                               !.passes = @ + 1,
                               !.wrote = normalize_of(norm.text, o1) # norm.text]
    /\ UNCHANGED <<script, pc, budget, git, host, plc, fl, mn, hist>>

NextNormalize == normalize_pass

SpecNormalize == InitNormalize /\ [][NextNormalize]_vars

(***************************************************************************)
(* THE DOWNLOAD PROBE ALONE                                                *)
(***************************************************************************)
\* Every surface a session can show to the probe.
AllSurfaces ==
    {[methods |-> ms, enum |-> e, options |-> os] :
        ms \in SUBSET {method_names[i] : i \in 1..Len(method_names)},
        e \in BOOLEAN,
        os \in SUBSET {opt_names[j] : j \in 1..Len(opt_names)}}
    \ {sf \in [methods : SUBSET {method_names[i] : i \in 1..Len(method_names)},
               enum : {FALSE},
               options : SUBSET {opt_names[j] : j \in 1..Len(opt_names)}] :
          sf.options # {}}

\* The invocations that raise: at most MaxRaising of them.
RaisingSets ==
    {rs \in SUBSET {Candidates[k] : k \in 1..Len(Candidates)} :
        Cardinality(rs) <= MaxRaising}

InitProbe ==
    /\ script = "grab_archive"
    /\ pc = "probe"
    /\ budget = 0
    /\ git = Repository(TRUE, InSync, InSync, "staging")
    /\ host = HostFresh
    /\ plc = [state |-> 1, layout |-> "lines", changed |-> FALSE]
    /\ \E sf \in AllSurfaces, rs \in RaisingSets :
          fl = [FlowIdle EXCEPT !.surface = sf, !.raising = rs]
    /\ mn = MainIdle
    /\ hist = HistInit
    /\ norm = NormIdle

\* One call of _try_download_to_controller(online_app).
probe_download ==
    /\ pc = "probe"
    /\ LET r == try_download_to_controller(fl.surface, fl.raising)
       IN  fl' = [fl EXCEPT !.calls = @ \cup {"download"},
                            !.invoked = r.invoked,
                            !.used = r.used,
                            !.ret = Return(r.ok, r.used)]
    /\ pc' = "probed"
    /\ UNCHANGED <<script, budget, git, host, plc, mn, hist, norm>>

NextProbe == probe_download

SpecProbe == InitProbe /\ [][NextProbe]_vars

(***************************************************************************)
(* PROPERTIES of grab_archive.py                                           *)
(***************************************************************************)
\* The calls run_deploy makes only past its gate.
PastGateCalls ==
    {"pull", "open_project", "create_online_application", "connect", "login"}

\* The step is run_deploy's gate, taken on a tier whose local commit id equals
\* the commit id of origin/<branch> (both as rev-parse gives them at the gate).
GateStepWithEqualIds ==
    /\ run_deploy_gate
    /\ git'.localRef[branch] # NoRev
    /\ git'.localRef[branch] = git'.remoteRef[branch]

\* C1 as stated: whenever the local commit id of the tier's branch equals the
\* commit id of origin/<branch>, run_deploy returns OK 'no remote changes'
\* without a pull, opening the project, creating an online application, or
\* calling connect or login.
C1_EqualIdsReturnNoRemoteChanges ==
    [][GateStepWithEqualIds =>
          /\ pc' = "record"
          /\ fl'.ret = Return(TRUE, "no remote changes")
          /\ fl'.calls \cap PastGateCalls = {}]_vars

\* C1, amended: with equal ids run_deploy ends at its gate without a pull,
\* opening the project, creating an online application, connect or login; it
\* returns OK 'no remote changes' when the remote origin is configured, and
\* FAIL 'no origin' when it is not.
C1_EqualIdsStopAtGate ==
    [][GateStepWithEqualIds =>
          /\ pc' = "record"
          /\ fl'.calls \cap PastGateCalls = {}
          /\ fl'.ret = IF git.hasOrigin THEN Return(TRUE, "no remote changes")
                       ELSE Return(FALSE, "no origin")]_vars

\* A deploy tier has returned at its gate with equal, resolved ids.
C1_Witness ==
    /\ pc = "record" /\ mn.tier >= 2
    /\ fl.gate = "closed"
    /\ fl.local_sha # NoRev /\ fl.local_sha = fl.remote_sha
    /\ fl.ret = Return(TRUE, "no remote changes")

\* How a tier ended: with a False result or a raised exception.
TierFailed(b) ==
    \/ hist.flow_end[b].kind = "raise"
    \/ hist.flow_end[b].kind = "return" /\ ~hist.flow_end[b].ok

LoopOver == pc \in {"restore", "exited"}

\* C2: for any failure of the staging tier (a False result or an exception
\* raised at any step), the prod tier is still run afterwards, the summary
\* records staging as FAIL, and prod's entry is OK or FAIL according to how
\* prod's own flow ended.
C2_StagingFailureIsContained ==
    (LoopOver /\ TierFailed("staging")) =>
        /\ "prod" \in hist.started
        /\ hist.flow_end["prod"].kind # "none"
        /\ mn.summary["staging"][1] = "FAIL"
        /\ mn.summary["prod"][1] = IF TierFailed("prod") THEN "FAIL" ELSE "OK"

\* Staging raised, prod deployed and is reported OK.
C2_Witness ==
    /\ pc = "exited"
    /\ hist.flow_end["staging"].kind = "raise"
    /\ hist.flow_end["prod"] = Return(TRUE, "deployed (%s)")
    /\ mn.summary["staging"][1] = "FAIL"
    /\ mn.summary["prod"][1] = "OK"

\* C3: once a tier has created its online session (create_online_application,
\* then a connect call that returned), _disconnect_best_effort has run by the
\* time the tier's flow ends, however the flow ends.
C3_TeardownBeforeFlowEnds ==
    (/\ pc = "record"
     /\ "create_online_application" \in fl.calls
     /\ "connect" \in fl.calls /\ fl.connect_raised = 0)
        => "_disconnect_best_effort" \in fl.calls

\* The tiers before the current one.
EarlierTiers == {BRANCHES[i] : i \in 1..(mn.tier - 1)}

\* C4: when a tier starts connecting to its device, the device of every
\* earlier tier is disconnected and its online application logged out,
\* provided no disconnect or logout call raised.
C4_OneSessionAtATime ==
    (pc = "cl_connect" /\ ~hist.teardown_raised) =>
        \A b \in EarlierTiers : ~host.connected[b] /\ ~host.logged_in[b]

\* C6: run_deploy goes past its gate only when origin/<branch> has commits the
\* local branch lacks: never when the local branch is equal to it or strictly
\* ahead of it (origin/<branch> an ancestor of the local branch).
C6_GateOpensOnlyWhenRemoteAhead ==
    (fl.gate # "none" /\ IsPrefix(fl.remote_sha, fl.local_sha)) =>
        /\ fl.gate = "closed"
        /\ fl.calls \cap PastGateCalls = {}

(***************************************************************************)
(* PROPERTIES of grab_archive.py run twice                                 *)
(***************************************************************************)
\* C8: a capture that follows a successful capture, with the dev controller's
\* program unchanged in between and no call failing in either run, returns
\* 'capture ok (no diff)' and runs no git add, commit or push.
C8_SecondCaptureIsNoOp ==
    (/\ pc = "record" /\ branch = "dev" /\ mn.run >= 2
     /\ ~plc.changed
     /\ budget = MaxRerunFaults
     /\ hist.prev_capture.kind = "return" /\ hist.prev_capture.ok
     /\ fl.ret.kind = "return" /\ fl.ret.ok)
        => /\ fl.ret.msg = "capture ok (no diff)"
           /\ fl.calls \cap {"add", "commit", "push"} = {}
           /\ hist.new_commits = 0

(***************************************************************************)
(* PROPERTIES of the standalone scripts                                    *)
(***************************************************************************)
\* _connect_and_login is over: the script is past the connect loop and the poll.
ConnectOver == pc \notin {"main", "update", "open", "wait_app", "import",
                          "cl_create", "cl_retry", "cl_poll"}

\* C5: in _connect_and_login of the standalone scripts, when the device never
\* reports connected and every dev.connect() raises, connect is called exactly
\* three times, never a fourth, and after a poll of bounded length the function
\* raises 'Device did not connect'.
C5_ThreeConnectAttemptsThenRaise ==
    /\ fl.attempt <= 3
    /\ fl.polls <= MaxPolls
    /\ (fl.connect_raised > 0 /\ fl.connect_raised = fl.attempt /\ ~fl.connecting) =>
          /\ pc = "cl_poll" => fl.attempt = 3
          /\ ConnectOver =>
                /\ fl.attempt = 3
                /\ fl.polls = MaxPolls
                /\ fl.ret = Raise("Device did not connect (last_err=%s)")
                /\ pc \in {"top_except", "exited"}
                /\ "login" \notin fl.calls

\* Three raising connects, the poll run to its end, the exception raised.
C5_Witness ==
    /\ script \in {"dev_capture", "deploy_staging", "deploy_prod"}
    /\ pc = "top_except"
    /\ fl.attempt = 3 /\ fl.connect_raised = 3
    /\ fl.polls = MaxPolls
    /\ fl.ret = Raise("Device did not connect (last_err=%s)")

\* C7: in deploy_staging.py and deploy_prod.py, when the update step brings
\* no new commit (the local branch already equals origin/<branch>), main ends
\* without creating an online application, connecting, or deploying.
C7_NoDeployWithoutNewCommit ==
    (/\ script \in {"deploy_staging", "deploy_prod"}
     /\ fl.pulled = "nothing"
     /\ fl.local_sha # NoRev /\ fl.local_sha = fl.remote_sha) =>
        fl.calls \cap {"create_online_application", "connect",
                       "create_boot_application"} = {}

\* C9: a run of dev_capture.py that follows a successful run, with the dev
\* controller's program unchanged in between and no call failing in either
\* run, finds the working tree clean and creates no commit.
C9_SecondRunFindsTreeClean ==
    (/\ script = "dev_capture" /\ pc = "exited" /\ mn.run >= 2
     /\ ~plc.changed
     /\ budget = MaxFaults
     /\ hist.prev_capture.kind = "return" /\ hist.prev_capture.ok
     /\ fl.ret.kind = "return" /\ fl.ret.ok)
        => /\ fl.ret.msg = "clean"
           /\ hist.new_commits = 0

(***************************************************************************)
(* PROPERTIES of grab_archive.normalize_plcopen_xml                        *)
(***************************************************************************)
\* C10: normalize_plcopen_xml is idempotent: on the output of a first pass a
\* second pass leaves the text unchanged and writes nothing.
C10_NormalizeIsIdempotent ==
    (script = "grab_archive" /\ norm.passes >= 2) =>
        /\ ~norm.wrote
        /\ norm.text = normalize_plcopen_xml(norm.input)

\* C11: dev_capture.normalize_plcopen_xml is idempotent: on the output of a
\* first pass a second pass leaves the text unchanged and writes nothing.
C11_DevNormalizeIsIdempotent ==
    (script = "dev_capture" /\ norm.passes >= 2) => ~norm.wrote

\* C12: with either normalizer, two artifacts that differ only in the order of
\* their entries or in the values of their timestamps normalize to the same
\* text, also when two entries carry the same Placeholder key.
C12_OrderAndTimestampsDoNotMatter ==
    (norm.relation = "order_timestamps" /\ norm.passes = 1) => norm.text = norm.other

\* C13: with either normalizer, two artifacts whose entries are equal up to
\* whitespace (inside an entry, indentation, line breaks between entries,
\* several entries on a line) normalize to the same text.
C13_WhitespaceDoesNotMatter ==
    (norm.relation = "whitespace" /\ norm.passes = 1) => norm.text = norm.other

\* A text whose block holds no entry: the self-closing tag, or a pair of tags
\* with nothing but whitespace between them.
HasEmptyBlock(text) ==
    \/ \E i \in 1..Len(text) : text[i] = SELF
    \/ \E i \in 1..Len(text) : \E j \in (i + 1)..Len(text) :
          /\ text[i] = OPEN
          /\ text[j] = CLOSE
          /\ \A k \in (i + 1)..(j - 1) : text[k] \in {NL, SP}

\* A text whose block is the opening tag, a newline and the closing tag.
BlockIsBareEmpty(text) ==
    /\ \A i \in 1..Len(text) : text[i] # SELF
    /\ Cardinality({i \in 1..Len(text) : text[i] = OPEN}) = 1
    /\ Cardinality({i \in 1..Len(text) : text[i] = CLOSE}) = 1
    /\ \A i \in 1..Len(text) :
          text[i] = OPEN => i + 2 <= Len(text) /\ text[i + 1] = NL /\ text[i + 2] = CLOSE

\* C14: with either normalizer, a block with zero entries, written as a pair
\* of tags or in the self-closing short form, normalizes to the opening tag,
\* a newline and the closing tag with nothing between.
C14_EmptyBlockNormalizesToBarePair ==
    (HasEmptyBlock(norm.input) /\ norm.passes = 1) => BlockIsBareEmpty(norm.text)

\* The order of preference as the specification declares it: the operations
\* download, application_download, program_download and, for each, the
\* options Download, FullDownload, All, Keep, then the form without argument.
DeclaredOrder ==
    << <<"download", "Download">>, <<"download", "FullDownload">>,
       <<"download", "All">>, <<"download", "Keep">>, <<"download", "">>,
       <<"application_download", "Download">>, <<"application_download", "FullDownload">>,
       <<"application_download", "All">>, <<"application_download", "Keep">>,
       <<"application_download", "">>,
       <<"program_download", "Download">>, <<"program_download", "FullDownload">>,
       <<"program_download", "All">>, <<"program_download", "Keep">>,
       <<"program_download", "">> >>

DeclaredPos(c) == CHOOSE k \in 1..Len(DeclaredOrder) : DeclaredOrder[k] = c

\* An operation the session exposes and none of whose forms raises.
Working(m) ==
    /\ m \in fl.surface.methods
    /\ \A c \in fl.raising : c[1] # m

ArtifactUntracked == git.indexXml = NoFile

ArtifactDiffersFromHead == git.plcopen_latest # git.headXml

\* C16: run_capture goes on to stage, commit and push exactly when the
\* normalized artifact is untracked or differs from HEAD; otherwise it returns
\* OK with the no-change note and runs no git add, commit or push.
C16_CommitIffUntrackedOrDiffers ==
    [][(pc = "cap_diff" /\ script = "grab_archive") =>
          /\ (pc' = "cap_commit") <=> (ArtifactUntracked \/ ArtifactDiffersFromHead)
          /\ pc' # "cap_commit" =>
                /\ fl'.ret = Return(TRUE, "capture ok (no diff)")
                /\ fl'.calls \cap {"add", "commit", "push"} = {}]_vars

\* C17: a commit created by grab_archive.run_capture holds the artifact path
\* only; the other paths, staged or untracked, are not in it and stay as they
\* were.
C17_CommitHoldsArtifactOnly ==
    [][(script = "grab_archive" /\ hist'.new_commits > hist.new_commits) =>
          /\ hist'.commit_paths = {rel_xml}
          /\ git'.staged = git.staged
          /\ git'.noise = git.noise]_vars

\* C17 witness: a commit made in a working copy with another path staged and
\* an untracked one.
C17_Witness ==
    /\ script = "grab_archive"
    /\ hist.new_commits > 0
    /\ git.staged = {"README.md"}
    /\ git.noise = {"notes.txt"}

\* The commit run_capture adds to dev.
CaptureCommit == Append(C1, 1)

\* C18: when the push fails after the local commit, the dev tier's outcome is
\* FAIL with the note of the push failure, and the commit stays on dev: the
\* branch is not reset or rolled back.
C18_PushFailureKeepsCommit ==
    (hist.flow_end["dev"] = Return(FALSE, "capture git failed (git push failed)")) =>
        /\ mn.summary["dev"] = <<"FAIL", "capture git failed (git push failed)">>
        /\ IsPrefix(CaptureCommit, git.localRef["dev"])

\* What was checked out when the run started.
StartedOn == IF mn.start_branch = "unknown" THEN "HEAD" ELSE mn.start_branch

\* A run that reached the tier loop is over.
RunOver == pc = "exited" /\ mn.start_branch # ""

\* C19: after the tier loop, whatever the outcomes, the repository is checked
\* out on what was checked out when the run started, a named branch or a
\* detached HEAD.
C19_StartCheckoutRestored ==
    RunOver => git.checkedOut = StartedOn

\* C20: at the end of a run that reached the tier loop the summary has an
\* entry OK or FAIL for each tier, OK exactly when the tier's flow returned
\* success, and the overall result is OK exactly when all three are OK.
C20_SummaryIsCompleteAndFaithful ==
    RunOver =>
        /\ \A b \in Branch :
              /\ mn.summary[b][1] \in {"OK", "FAIL"}
              /\ (mn.summary[b][1] = "OK")
                    <=> (hist.flow_end[b].kind = "return" /\ hist.flow_end[b].ok)
        /\ mn.overall_ok <=> \A b \in Branch : mn.summary[b][1] = "OK"

\* C20 witness: a finished run with one tier OK, one failed by a returned
\* failure and one by an exception.
C20_Witness ==
    /\ RunOver
    /\ \E b \in Branch : mn.summary[b][1] = "OK"
    /\ \E b \in Branch : mn.summary[b][1] = "FAIL" /\ hist.flow_end[b].kind = "return"
    /\ \E b \in Branch : mn.summary[b][1] = "FAIL" /\ hist.flow_end[b].kind = "raise"

\* C21: _disconnect_best_effort never propagates an exception: when disconnect
\* raises logout is still attempted, the function returns normally whatever
\* raises, the result of the flow is the one it had, and the loop goes on to
\* the next tier.
C21_TeardownNeverPropagates ==
    [][/\ (pc = "teardown" /\ script = "grab_archive") =>
             /\ pc' = "record"
             /\ fl'.ret = fl.ret
             /\ {"_disconnect_best_effort", "logout"} \subseteq fl'.calls
       /\ (pc = "record" /\ script = "grab_archive" /\ mn.tier < Len(BRANCHES)) =>
             pc' = "checkout"]_vars

\* C21 witness: the dev tier's disconnect raised, its flow still returned its
\* success, and the staging tier has started.
C21_Witness ==
    /\ script = "grab_archive"
    /\ host.connected["dev"]
    /\ hist.teardown_raised
    /\ hist.flow_end["dev"].kind = "return" /\ hist.flow_end["dev"].ok
    /\ "staging" \in hist.started

\* C22: every run of grab_archive ends, and ends with system.exit()
\* attempted; no exception passes the top-level handler.  This holds when
\* main completes, when tiers fail, and when an exception leaves main before
\* the tier loop.
C22_RunEndsWithShutdown ==
    <>[](script = "grab_archive" => (pc = "exited" /\ mn.shutdown))

\* C22 witness: a run ended by the top-level handler, before the tier loop.
C22_Witness ==
    /\ script = "grab_archive"
    /\ pc = "exited"
    /\ mn.shutdown
    /\ mn.start_branch = ""
    /\ hist.started = {}
    /\ budget = MaxFaults - 1

(***************************************************************************)
(* PROPERTIES of the connection, the deploy decision and the later runs     *)
(***************************************************************************)
\* C23: in grab_archive a dev.connect() that raises is retried: the tier's
\* connection has failed on a raising connect only once 3 connect attempts
\* have raised.
C23_ConnectRetriedThreeTimes ==
    (script = "grab_archive" /\ fl.ret = Raise("dev.connect failed")) =>
        fl.connect_raised = 3

\* C24: in _connect_and_login of the standalone scripts, once all 3 connect
\* attempts have raised the function fails: it raises the error that carries
\* the last connect error, the session is never connected and login is never
\* called.
C24_ExhaustedAttemptsFail ==
    (/\ script \in {"dev_capture", "deploy_staging", "deploy_prod"}
     /\ fl.connect_raised = Len(ConnectAttempts)) =>
        /\ ~host.connected[fl.online_app]
        /\ pc # "cl_login"
        /\ "login" \notin fl.calls
        /\ ConnectOver => fl.ret = Raise("Device did not connect (last_err=%s)")

\* C25: when a deploy tier's flow failed after its fast-forward pull, a later
\* run still attempts the deploy for that tier: the tier is not reported OK
\* 'no remote changes' while the pulled commit has not been applied.
C25_PulledCommitIsDeployedLater ==
    (/\ script = "grab_archive" /\ mn.run >= 2 /\ pc = "record"
     /\ branch \in hist.undeployed) =>
        fl.ret # Return(TRUE, "no remote changes")

\* C26: the project _open_project_primary returns for a tier is the project
\* opened from that tier's project path, never one an earlier tier left open.
C26_ProjectIsTheTiersOwn ==
    (script = "grab_archive" /\ pc = "wait_app") => fl.proj = branch

\* C27: when a capture's push failed and left on dev a commit that origin
\* lacks, a later capture run that reaches the remote and reports OK has
\* pushed that commit, also when the device state has not changed: dev is not
\* ahead of origin after a run that reported OK.
C27_UnpushedCommitIsPushedLater ==
    (/\ script = "grab_archive" /\ mn.run >= 2
     /\ git.hasOrigin
     /\ hist.prev_capture = Return(FALSE, "capture git failed (git push failed)")
     /\ hist.flow_end["dev"].kind = "return" /\ hist.flow_end["dev"].ok) =>
        git.localRef["dev"] = git.originTip["dev"]

\* The probe made an invocation of operation m that did not raise.
Succeeded(m) ==
    \E i \in 1..Len(fl.invoked) : fl.invoked[i][1] = m /\ fl.invoked[i] \notin fl.raising

\* The probe made an invocation of operation m with an option that did not raise.
OptionSucceeded(m) ==
    \E i \in 1..Len(fl.invoked) :
        /\ fl.invoked[i][1] = m /\ fl.invoked[i][2] # ""
        /\ fl.invoked[i] \notin fl.raising

\* C28: every exposed operation that the probe comes to (no operation before
\* it worked) and for which no invocation with an option succeeded, because
\* every option raised or none could be tried, is invoked without arguments
\* before the probe goes on or returns failure.
C28_NoArgumentFormIsAlwaysTried ==
    (pc = "probed") =>
        \A m \in fl.surface.methods :
            (/\ ~OptionSucceeded(m)
             /\ \A a \in fl.surface.methods :
                   DeclaredPos(<<a, "">>) < DeclaredPos(<<m, "">>) => ~Succeeded(a))
                => \E i \in 1..Len(fl.invoked) : fl.invoked[i] = <<m, "">>

\* The step is run_deploy's gate, taken on a tier for which rev-parse does
\* not resolve the local branch or origin/<branch>.
GateStepWithUnresolvedId ==
    /\ run_deploy_gate
    /\ git'.localRef[branch] = NoRev \/ git'.remoteRef[branch] = NoRev

\* C29 as stated: whenever the local or the remote commit id cannot be
\* resolved, the remote itself missing included, the tier's outcome is OK and
\* no pull or device contact happens.
C29_UnresolvedIdsGiveOk ==
    [][GateStepWithUnresolvedId =>
          /\ pc' = "record"
          /\ fl'.ret.kind = "return" /\ fl'.ret.ok
          /\ fl'.calls \cap PastGateCalls = {}]_vars

\* C29, amended: with an id that does not resolve run_deploy ends at its gate
\* without a pull or device contact; it returns OK 'no remote changes' when
\* the remote origin is configured, and FAIL 'no origin' when it is not.
C29_UnresolvedIdsStopAtGate ==
    [][GateStepWithUnresolvedId =>
          /\ pc' = "record"
          /\ fl'.calls \cap PastGateCalls = {}
          /\ fl'.ret = IF git.hasOrigin THEN Return(TRUE, "no remote changes")
                       ELSE Return(FALSE, "no origin")]_vars

\* A deploy tier has returned OK at its gate, origin/<branch> unresolved.
C29_Witness ==
    /\ pc = "record" /\ mn.tier >= 2
    /\ git.hasOrigin
    /\ fl.gate = "closed"
    /\ fl.remote_sha = NoRev
    /\ fl.ret = Return(TRUE, "no remote changes")

\* C30: every ahead/behind decision of run_deploy follows, in the same run, a
\* fetch of origin that refreshed the remote-tracking refs: the id of
\* origin/<branch> the decision was taken on is the remote's as of a fetch of
\* this run, never that of refs no fetch refreshed.
C30_DecisionFollowsFetch ==
    (script = "grab_archive" /\ pc \in {"dep_pull", "record"} /\ fl.gate # "none") =>
        fl.remote_sha = git.originTip[branch]

(***************************************************************************)
(* PROPERTIES of the session, the capture steps and the deploy steps        *)
(***************************************************************************)
\* C31: _disconnect_best_effort calls dev.disconnect() only if the device is
\* connected and online_app.logout() only if the session is logged in: on a
\* session that is not logged in no logout call is made.
C31_TeardownCallsAreGuarded ==
    [][(pc = "teardown" /\ script = "grab_archive") =>
          /\ "disconnect" \in fl'.calls => host.connected[fl.online_app]
          /\ "logout" \in fl'.calls => host.logged_in[fl.online_app]]_vars

\* The step is a call of online_app.login in _connect_and_login.
LoginCalled == pc = "cl_login" /\ (fl' # fl \/ host' # host)

\* C32: per session online_app.login is invoked at most once, only when
\* is_logged_in is false, and with the Keep option; when is_logged_in is
\* still false after the call _connect_and_login raises and login is not
\* attempted again.
C32_LoginOnceWithKeep ==
    [][/\ LoginCalled =>
             /\ ~host.logged_in[fl.online_app]
             /\ "login" \notin fl.calls
             /\ "login" \in fl'.calls
             /\ fl'.login_opt = "Keep"
             /\ ~host'.logged_in[fl.online_app] =>
                   /\ pc' = on_raise
                   /\ fl'.ret.kind = "raise"
                   /\ fl'.ret.msg \in {"Login failed", "online_app.login failed"}
       /\ pc = "cl_login" => pc' # "cl_login"
       /\ ~LoginCalled => ("login" \in fl'.calls => "login" \in fl.calls)]_vars

\* C32 witness: a login with Keep that left the session not logged in, and
\* the flow ended by 'Login failed'.
C32_Witness ==
    /\ script = "grab_archive"
    /\ pc = "record"
    /\ "login" \in fl.calls /\ fl.login_opt = "Keep"
    /\ ~host.logged_in[fl.online_app]
    /\ fl.ret = Raise("Login failed")

\* The positions of the try body of run_capture and run_deploy: the source
\* pull, the export, the commit, the download and the start.
InTryBody ==
    pc \in {"cap_pull", "cap_export", "cap_normalize", "cap_diff", "cap_commit",
            "dep_download"}

SnapshotNotWritten ==
    /\ pc = "cap_pull"
    /\ pc' # "cap_pull"
    /\ fl'.ret # Raise("source_download")
    /\ "save_archive" \notin fl'.calls \/ fl'.ret = Raise("save_archive")

\* C34: in run_capture a snapshot that could not be written (save_archive
\* missing, or raising) does not fail the tier: the flow goes on to the
\* export with no result decided yet.
C34_SnapshotFailureIsNotFatal ==
    [][(script = "grab_archive" /\ SnapshotNotWritten) =>
          /\ pc' = "cap_export"
          /\ fl'.ret = NoResult]_vars

\* C35: what run_capture diffs, stages and commits is the canonical form of
\* the fresh export: the flow comes to the diff check only with the file
\* holding what normalize_plcopen_xml makes of the export.
C35_DiffRunsOnCanonicalForm ==
    [][(script = "grab_archive" /\ pc = "cap_normalize" /\ pc' = "cap_diff") =>
          git'.plcopen_latest = normalize_plcopen_xml(git.plcopen_latest)]_vars

\* The tokens other than whitespace that a text holds after its first
\* opening tag and before its last closing tag.
ChildrenOf(text) ==
    LET opens == {i \in 1..Len(text) : text[i] = OPEN}
        closes == {i \in 1..Len(text) : text[i] = CLOSE}
    IN  IF opens = {} \/ closes = {} THEN {}
        ELSE LET s == CHOOSE i \in opens : \A k \in opens : i <= k
                 e == CHOOSE j \in closes : \A k \in closes : k <= j
             IN  {text[i] : i \in {k \in (s + 1)..(e - 1) : text[k] \notin {NL, SP}}}

\* C36: the block rebuilt by grab_archive.normalize_plcopen_xml is one opening
\* tag, the child entries of the input block and one closing tag: no line
\* that is not a child entry of the input block, such as the block's own
\* opening tag, is among the children.
C36_RebuiltBlockHoldsEntriesOnly ==
    (/\ script = "grab_archive" /\ norm.passes = 1
     /\ \E i \in 1..Len(norm.input) : norm.input[i] = OPEN) =>
        /\ ChildrenOf(norm.text) = ChildrenOf(norm.input)
        /\ Cardinality({i \in 1..Len(norm.text) : norm.text[i] = OPEN}) = 1
        /\ Cardinality({i \in 1..Len(norm.text) : norm.text[i] = CLOSE}) = 1

\* C37: in run_deploy, once the probe has succeeded, the flow returns OK
\* 'deployed (<descriptor>)' whether online_app.start is absent, raises or
\* succeeds, and goes on to the teardown.
C37_StartIsBestEffort ==
    [][(/\ script = "grab_archive" /\ pc = "dep_download"
        /\ Len(fl'.invoked) > 0
        /\ fl'.invoked[Len(fl'.invoked)] \notin fl'.raising) =>
          /\ fl'.start \in {"absent", "ok", "raises"}
          /\ fl'.ret = Return(TRUE, "deployed (%s)")
          /\ pc' = "teardown"]_vars

\* C37 witness: a tier whose start raised, recorded after its teardown as
\* deployed.
C37_Witness ==
    /\ script = "grab_archive"
    /\ pc = "record"
    /\ fl.start = "raises"
    /\ "_disconnect_best_effort" \in fl.calls
    /\ fl.ret = Return(TRUE, "deployed (%s)")

\* What a flow calls once its pull has succeeded.
AfterPullCalls ==
    {"open_project", "create_online_application", "connect", "login", "download",
     "start"}

\* C38: when the fast-forward pull fails in run_deploy the tier's outcome is
\* FAIL, the branch is where it was (no merge, rebase or forced update), no
\* project is opened and no device is contacted for the tier, and the tier
\* after it is still processed.
C38_FailedPullEndsTierOnly ==
    /\ (/\ script = "grab_archive" /\ pc = "record"
        /\ fl.ret = Return(FALSE, "ff-pull failed (branch diverged)")) =>
          /\ git.localRef[branch] = fl.local_sha
          /\ fl.calls \cap AfterPullCalls = {}
    /\ \A b \in Branch :
          (/\ script = "grab_archive"
           /\ hist.flow_end[b] = Return(FALSE, "ff-pull failed (branch diverged)")) =>
             /\ mn.summary[b] = <<"FAIL", "ff-pull failed (branch diverged)">>
             /\ (b = "staging" /\ LoopOver) => "prod" \in hist.started

\* C38 witness: staging had diverged and its pull failed, and prod has been
\* processed after it.
C38_Witness ==
    /\ script = "grab_archive"
    /\ LoopOver
    /\ hist.flow_end["staging"] = Return(FALSE, "ff-pull failed (branch diverged)")
    /\ ~IsPrefix(git.localRef["staging"], git.originTip["staging"])
    /\ ~IsPrefix(git.originTip["staging"], git.localRef["staging"])
    /\ hist.flow_end["prod"].kind = "return"

\* C39: when both export attempts fail in run_capture the flow returns FAIL
\* 'PLCopen export failed' and goes to the teardown: the export is not tried
\* again, and no normalization, git add, commit or push is executed; the
\* tier is recorded with that note after the teardown.
C39_FailedExportEndsCapture ==
    [][script = "grab_archive" =>
          /\ (pc = "cap_export" /\ fl'.ret = Return(FALSE, "PLCopen export failed")) =>
                /\ pc' = "teardown"
                /\ git' = git
          /\ (pc = "teardown" /\ fl.ret = Return(FALSE, "PLCopen export failed")) =>
                /\ pc' = "record"
                /\ "_disconnect_best_effort" \in fl'.calls
                /\ fl'.ret = fl.ret
                /\ fl'.calls \cap {"normalize", "add", "commit", "push"} = {}
          /\ (pc = "record" /\ fl.ret = Return(FALSE, "PLCopen export failed")) =>
                mn'.summary["dev"] = <<"FAIL", "PLCopen export failed">>]_vars

\* C39 witness: the dev tier recorded with the failed export, after its
\* teardown.
C39_Witness ==
    /\ script = "grab_archive"
    /\ mn.summary["dev"] = <<"FAIL", "PLCopen export failed">>
    /\ hist.flow_end["dev"] = Return(FALSE, "PLCopen export failed")
    /\ "staging" \in hist.started

====
